---------------------------- MODULE Spec2Model ----------------------------
(***************************************************************************)
(* Model of the SWaT model-ensemble scoring engine (backend/wrappers,      *)
(* backend/utils/model_loader.py).                                         *)
(*                                                                         *)
(* Numbers.  The code computes in IEEE doubles; the model computes in      *)
(* exact rationals <<num, den>> (den > 0, lowest terms).  The sensor       *)
(* readings of the model are small integers, so that every quantity the    *)
(* code compares is either equal in exact arithmetic or differs by far     *)
(* more than EPS = 1e-12 and double rounding; under that reading           *)
(*   std < EPS            is   variance = 0                                *)
(*   |r|/(std+EPS) > zth  is   zth < 0  \/  r^2 > zth^2 * variance         *)
(***************************************************************************)
EXTENDS Integers, Sequences, FiniteSets, TLC

VARIABLES wrapper, call, fc, cls,
          disk, CACHE, MODEL_CACHE, heap, tasks, running

(* The state of the artifact loader and its callers.                       *)
loading == <<disk, CACHE, MODEL_CACHE, heap, tasks, running>>

vars == <<wrapper, call, fc, cls, loading>>

---------------------------------------------------------------------------
(* Bounds of the model.                                                    *)

MaxLen == 4

---------------------------------------------------------------------------
(* Exact rational arithmetic.                                              *)

Abs(x) == IF x < 0 THEN -x ELSE x

Min(a, b) == IF a <= b THEN a ELSE b

Max(a, b) == IF a >= b THEN a ELSE b

RECURSIVE GCD(_, _)
GCD(a, b) == IF b = 0 THEN a ELSE GCD(b, a % b)

RECURSIVE LCMUpTo(_)
LCMUpTo(k) == IF k <= 1 THEN 1
              ELSE LET l == LCMUpTo(k - 1) IN (l * k) \div GCD(l, k)

Q(n, d) == LET g == GCD(Abs(n), Abs(d))
               s == IF d < 0 THEN -1 ELSE 1
           IN  IF g = 0 THEN <<0, 1>> ELSE <<(s * n) \div g, (s * d) \div g>>

QInt(k) == <<k, 1>>

QAdd(a, b) == Q(a[1] * b[2] + b[1] * a[2], a[2] * b[2])

QSub(a, b) == Q(a[1] * b[2] - b[1] * a[2], a[2] * b[2])

QMul(a, b) == LET x == Q(a[1], b[2])
                  y == Q(b[1], a[2])
              IN  Q(x[1] * y[1], x[2] * y[2])

QDivInt(a, k) == Q(a[1], a[2] * k)

QLt(a, b) == a[1] * b[2] < b[1] * a[2]

QLe(a, b) == a[1] * b[2] <= b[1] * a[2]

QMax(a, b) == IF QLe(b, a) THEN a ELSE b

RECURSIVE QSum(_)
QSum(s) == IF Len(s) = 0 THEN <<0, 1>> ELSE QAdd(Head(s), QSum(Tail(s)))

RECURSIVE IntSum(_)
IntSum(s) == IF Len(s) = 0 THEN 0 ELSE Head(s) + IntSum(Tail(s))

RECURSIVE GCDSeq(_)
GCDSeq(s) == IF Len(s) = 0 THEN 0 ELSE GCD(Abs(Head(s)), GCDSeq(Tail(s)))

RECURSIVE LCMSeq(_)
LCMSeq(s) == IF Len(s) = 0 THEN 1
             ELSE LET l == LCMSeq(Tail(s)) IN (l * Head(s)) \div GCD(l, Head(s))

---------------------------------------------------------------------------
(* Python dictionaries: d.get(k, default) and truthiness.                  *)

Get(d, k, default) == IF k \in DOMAIN d THEN d[k] ELSE default

(* A number that is not given (None).                                      *)
NoQ == <<0, 0>>

(* A sequence given by a function on 1..n, as a tuple.                     *)
Tup(f) == f \o <<>>

(* F applied to the value of v, v being evaluated once.                    *)
Let(v, F(_)) == CHOOSE r \in { F(x) : x \in {v} } : TRUE

Has(d, k) == k \in DOMAIN d

Truthy(seq) == Len(seq) > 0

---------------------------------------------------------------------------
(* Artifacts.  A forecast entry (info) is a record with "kind" = "dict"    *)
(* and any of the keys target_sensor, z_threshold, window_size,            *)
(* importance, last_values, fitted_model, fitted_path; an entry that is    *)
(* not a mapping is [kind |-> "other"].  A forecast map is the sequence    *)
(* of its entries in insertion order.                                      *)

Dict == [kind |-> "dict"]

NotADict == [kind |-> "other"]

IsDict(x) == x.kind = "dict"

With(d, k, v) == (k :> v) @@ d

Families == {"arima", "holt_winters", "exp_esd_zscore", "high_sensitivity",
             "cusum", "zscore", "ewma", "rolling_quantile"}

ForecastFamilies == {"arima", "holt_winters", "exp_esd_zscore", "high_sensitivity"}

(* BaseModelWrapper.__init__: the threshold is training_params'             *)
(* anomaly_threshold, else config's, else 1.0.                             *)
BaseInit(model_dict) ==
    LET training_params == Get(model_dict, "training_params", Dict)
        config == Get(model_dict, "config", Dict)
    IN  [ model_dict |-> model_dict,
          training_params |-> training_params,
          config |-> config,
          anomaly_threshold |->
              Get(training_params, "anomaly_threshold",
                  Get(config, "anomaly_threshold", QInt(1))) ]

(* _compute_inverse_frequency: Counter over the target_sensor of the       *)
(* entries that are mappings with a non-empty target_sensor.               *)
CountedTargets(models) ==
    { Get(models[i], "target_sensor", "") : i \in
        { j \in 1..Len(models) :
            IsDict(models[j]) /\ Get(models[j], "target_sensor", "") # "" } }

FreqAllEntries(models, t) == Len(models)

Freq(models, t) ==
    Cardinality({ j \in 1..Len(models) :
        IsDict(models[j]) /\ Get(models[j], "target_sensor", "") = t })

ComputeInverseFrequency(models) ==
    [ t \in CountedTargets(models) |-> Q(1, Freq(models, t)) ]

(* self.models of each forecast-entry wrapper.                             *)
ArimaModels(model_dict) ==
    LET fm == Get(model_dict, "forecast_models", <<>>)
        am == Get(model_dict, "arima_models", <<>>)
    IN  IF Truthy(fm) THEN fm ELSE IF Truthy(am) THEN am ELSE <<>>

ForecastOnlyModels(model_dict) ==
    LET fm == Get(model_dict, "forecast_models", <<>>)
    IN  IF Truthy(fm) THEN fm ELSE <<>>

---------------------------------------------------------------------------
(* Forecast Provider.  A result is [ok, val, err]: a returned array or a   *)
(* raised exception.                                                       *)

Ok(v) == [ok |-> TRUE, val |-> v, err |-> ""]

Raise(e) == [ok |-> FALSE, val |-> <<>>, err |-> e]

Full(n, v) == Tup([i \in 1..n |-> v])

(* np.nanmean of a series of finite readings (of an empty one: nan, which  *)
(* np.full(0, nan) never stores).                                          *)
NanMean(series) ==
    IF Len(series) = 0 THEN <<0, 1>> ELSE Q(IntSum(series), Len(series))

(* csum = np.concatenate(([0.0], np.cumsum(series))): csum[k] is the sum   *)
(* of the first k readings, k = 0..n.                                      *)
CSum(series, k) == IntSum(SubSeq(series, 1, k))

(* numpy's out[start:] = vals for 1-d arrays: vals must have the slice's   *)
(* length or length 1 (broadcast), else ValueError.                        *)
SliceAssign(head, slots, vals) ==
    IF Len(vals) = slots THEN Ok(head \o vals)
    ELSE IF Len(vals) = 1 THEN Ok(head \o Full(slots, vals[1]))
    ELSE Raise("ValueError")

(* The running mean with the reading itself included.                      *)
MovingAverageInclusive(series, window) ==
    Ok(Tup([ k \in 1..Len(series) |-> Q(IntSum(SubSeq(series, 1, k)), k) ]))

(* The window moving average shared by the wrappers: positions 0..min(w,n)-1 *)
(* by the loop, positions w.. by the cumulative-sum slice.                 *)
MovingAverage(series, window) ==
    LET n == Len(series)
        head == Tup([ k \in 1..Min(window, n) |->
                    IF k = 1 THEN QInt(series[1])
                    ELSE Q(CSum(series, k - 1), k - 1) ])
        ws == Tup([ k \in 1..(n + 1 - window) |->
                    Q(CSum(series, window + k - 1) - CSum(series, k - 1), window) ])
    IN  IF n > window THEN SliceAssign(head, n - window, ws) ELSE Ok(head)

(* A fitted forecaster object: [caps, raises, value].  forecast(steps=n)   *)
(* and predict(start=0, end=n-1) return n values or raise.                 *)
CallForecaster(fm, n) ==
    IF "forecast" \in fm.caps
      THEN IF fm.raises THEN Raise("fell_through") ELSE Ok(Full(n, QInt(fm.value)))
    ELSE IF "predict" \in fm.caps
      THEN IF fm.raises THEN Raise("fell_through") ELSE Ok(Full(n, QInt(fm.value)))
    ELSE Raise("fell_through")

(* The files a fitted_path can name: [exists, loads, obj].                 *)
Disk(path) ==
    CASE path = "fitted.pkl" ->
           [exists |-> TRUE, loads |-> TRUE,
            obj |-> [caps |-> {"forecast"}, raises |-> FALSE, value |-> 1]]
      [] path = "corrupt.pkl" ->
           [exists |-> TRUE, loads |-> FALSE,
            obj |-> [caps |-> {}, raises |-> TRUE, value |-> 0]]
      [] OTHER ->
           [exists |-> FALSE, loads |-> FALSE,
            obj |-> [caps |-> {}, raises |-> TRUE, value |-> 0]]

(* The part of the chain after the forecasters: last_values, window,       *)
(* observed mean (HoltWintersWrapper._fallback_forecast and                *)
(* ExpESDZScoreWrapper._forecast_fallback are this chain).                 *)
FallbackChain(info, series) ==
    LET n == Len(series)
        last_vals == Get(info, "last_values", <<>>)
        window == Get(info, "window_size", 0)
    IN  IF Truthy(last_vals) THEN Ok(Full(n, QInt(last_vals[Len(last_vals)])))
        ELSE IF window > 1 THEN MovingAverage(series, window)
        ELSE Ok(Full(n, NanMean(series)))

(* The chain with last_values consulted before the forecasters.            *)
ArimaForecastLastValuesFirst(info, series) ==
    LET n == Len(series)
        embedded == IF Has(info, "fitted_model")
                      THEN CallForecaster(info["fitted_model"], n)
                      ELSE Raise("fell_through")
    IN  IF n = 0 THEN Ok(<<>>)
        ELSE IF Truthy(Get(info, "last_values", <<>>)) THEN FallbackChain(info, series)
        ELSE IF embedded.ok THEN embedded
        ELSE FallbackChain(info, series)

(* ArimaWrapper._forecast_series                                           *)
ArimaForecastSeries(info, series) ==
    LET n == Len(series)
        embedded == IF Has(info, "fitted_model")
                      THEN CallForecaster(info["fitted_model"], n)
                      ELSE Raise("fell_through")
        fitted_path == Get(info, "fitted_path", "")
        file == Disk(fitted_path)
        external == IF fitted_path # "" /\ file.exists /\ file.loads
                      THEN CallForecaster(file.obj, n)
                      ELSE Raise("fell_through")
    IN  IF n = 0 THEN Ok(<<>>)
        ELSE IF embedded.ok THEN embedded
        ELSE IF external.ok THEN external
        ELSE FallbackChain(info, series)

(* HoltWintersWrapper._fallback_forecast                                   *)
HoltWintersFallbackForecast(info, series) == FallbackChain(info, series)

(* ExpESDZScoreWrapper._forecast_fallback                                  *)
ESDForecastFallback(info, series) == FallbackChain(info, series)

(* HighSensitivityWrapper._forecast_simple                                 *)
HSForecastSimple(info, series) ==
    LET last_vals == Get(info, "last_values", <<>>)
    IN  IF Truthy(last_vals)
          THEN Ok(Full(Len(series), QInt(last_vals[Len(last_vals)])))
          ELSE Ok(Full(Len(series), NanMean(series)))

(* GrangerAnomalyDetector._forecast_series (with _load_fitted)            *)
GrangerForecastSeries(info, series) ==
    LET n == Len(series)
        embedded == IF Has(info, "fitted_model")
                      THEN CallForecaster(info["fitted_model"], n)
                      ELSE Raise("fell_through")
        fitted_path == Get(info, "fitted_path", "")
        file == Disk(fitted_path)
        external == IF fitted_path # "" /\ file.exists /\ file.loads
                      THEN CallForecaster(file.obj, n)
                      ELSE Raise("fell_through")
    IN  IF n = 0 THEN Ok(<<>>)
        ELSE IF embedded.ok THEN embedded
        ELSE IF external.ok THEN external
        ELSE FallbackChain(info, series)

(* fast_inference._forecast_vector: window_size defaults to 50, and the    *)
(* last fallback is the last reading (0.0 for an empty series).            *)
FastForecastVector(info, series) ==
    LET n == Len(series)
        embedded == IF Has(info, "fitted_model")
                      THEN CallForecaster(info["fitted_model"], n)
                      ELSE Raise("fell_through")
        fitted_path == Get(info, "fitted_path", "")
        file == Disk(fitted_path)
        external == IF fitted_path # "" /\ file.exists /\ file.loads
                      THEN CallForecaster(file.obj, n)
                      ELSE Raise("fell_through")
        last_vals == Get(info, "last_values", <<>>)
        window == Get(info, "window_size", 50)
    IN  IF embedded.ok THEN embedded
        ELSE IF external.ok THEN external
        ELSE IF Truthy(last_vals) THEN Ok(Full(n, QInt(last_vals[Len(last_vals)])))
        ELSE IF window > 1 /\ n > 0 THEN MovingAverage(series, window)
        ELSE Ok(Full(n, IF n > 0 THEN QInt(series[n]) ELSE <<0, 1>>))

Forecast(family, info, series) ==
    CASE family = "arima" -> ArimaForecastSeries(info, series)
      [] family = "holt_winters" -> HoltWintersFallbackForecast(info, series)
      [] family = "exp_esd_zscore" -> ESDForecastFallback(info, series)
      [] family = "high_sensitivity" -> HSForecastSimple(info, series)
      [] family = "granger" -> GrangerForecastSeries(info, series)
      [] OTHER -> FastForecastVector(info, series)

(* np.resize(a, n): a repeated to length n; zeros when a is empty.         *)
Resize(a, n) ==
    IF Len(a) = 0 THEN Full(n, <<0, 1>>)
    ELSE Tup([ i \in 1..n |-> a[((i - 1) % Len(a)) + 1] ])

---------------------------------------------------------------------------
(* Batches.  X is [n, cols]: n rows and, per column name, its dtype and    *)
(* its n values.                                                           *)

KeepAllColumns(X) ==
    [ n |-> X.n, cols |-> [ c \in DOMAIN X.cols |-> X.cols[c].vals ] ]

(* BaseModelWrapper._ensure_numeric: X.select_dtypes(include=["number"])   *)
EnsureNumeric(X) ==
    [ n |-> X.n,
      cols |-> [ c \in { d \in DOMAIN X.cols : X.cols[d].dtype = "num" } |->
                   X.cols[c].vals ] ]

---------------------------------------------------------------------------
(* Residual Scorer.  The residuals series - forecast are rationals; they   *)
(* are brought to a common denominator and divided by their common factor, *)
(* which leaves every z-score |r| / std unchanged.                         *)

Residual(series, forecast) ==
    Tup([ i \in 1..Len(series) |-> QSub(QInt(series[i]), forecast[i]) ])

DivideAll(scaled, g) ==
    IF g = 0 THEN scaled ELSE Tup([ i \in 1..Len(scaled) |-> scaled[i] \div g ])

ScaleAll(residual, d) ==
    Tup([ i \in 1..Len(residual) |-> residual[i][1] * (d \div residual[i][2]) ])

ResidualInts(residual) ==
    Let(LCMSeq(Tup([ i \in 1..Len(residual) |-> residual[i][2] ])), LAMBDA d :
      Let(ScaleAll(residual, d), LAMBDA scaled :
        Let(GCDSeq(scaled), LAMBDA g : DivideAll(scaled, g))))

(* n^2 times the population variance of r (residual.std() squared).        *)
VarN2(r) ==
    LET sq == Tup([ i \in 1..Len(r) |-> r[i] * r[i] ])
    IN  Len(r) * IntSum(sq) - IntSum(r) * IntSum(r)

StdNeverBelowEps(v) == FALSE

(* std < EPS, for v = n^2 * variance                                       *)
StdBelowEps(v) == v = 0

(* np.abs(residual / (std + EPS))[i] > zth, for ri = residual[i] and       *)
(* v = n^2 * variance                                                      *)
ZExceeds(ri, n, v, zth) ==
    \/ zth[1] < 0
    \/ ri * ri * n * n * zth[2] * zth[2] > zth[1] * zth[1] * v

(* ExpESDZScoreWrapper: 1 - exp(-z) > 1 - exp(-zth), in doubles.  From    *)
(* x = 54 ln 2 = 37.43 on exp(-x) is below 2^-54 and 1 - exp(-x) is 1.0;  *)
(* for 36.33 < x < 37.43 it is 1 - 2^-53; the cells below are narrower    *)
(* than 0.52 and the map is taken as increasing there.  DampCuts are the   *)
(* two bounds in hundredths.                                               *)
DampCuts == <<3633, 3743>>

(* x >= c / 100 for the threshold x, a rational                            *)
ThresholdAtLeast(zth, c) == zth[1] * 100 >= c * zth[2]

(* z >= c / 100 for z = |ri| * n / sqrt(v); z < 30 is decided first, on    *)
(* small numbers.                                                          *)
ZAtLeast(ri, n, v, c) ==
    /\ ri * ri * n * n >= 900 * v
    /\ ri * ri * n * n * 10000 >= c * c * v

DampSaturates(zth) == ThresholdAtLeast(zth, DampCuts[2])

(* z and zth in the cell of 1 - 2^-53                                      *)
DampMerges(ri, n, v, zth) ==
    /\ ThresholdAtLeast(zth, DampCuts[1])
    /\ ~ZAtLeast(ri, n, v, DampCuts[2])

DampedExceeds(ri, n, v, zth) ==
    /\ ZExceeds(ri, n, v, zth)
    /\ ~DampSaturates(zth)
    /\ ~DampMerges(ri, n, v, zth)

(* zth * 0.85 of the high-sensitivity wrapper.                             *)
HSThreshold(zth) == QMul(zth, Q(17, 20))

Violation(family, ri, n, v, zth) ==
    CASE family = "exp_esd_zscore" -> DampedExceeds(ri, n, v, zth)
      [] family = "high_sensitivity" -> ZExceeds(ri, n, v, HSThreshold(zth))
      [] OTHER -> ZExceeds(ri, n, v, zth)

(* viol * w * imp, times 1.25 in the high-sensitivity wrapper.             *)
Contribution(family, viol, w, imp) ==
    IF ~viol THEN <<0, 1>>
    ELSE IF family = "high_sensitivity" THEN QMul(QMul(w, imp), Q(5, 4))
    ELSE QMul(w, imp)

(* One pass of the loop of _aggregate_score over an entry: what it adds    *)
(* to total.  status: "skipped" (continue before forecasting), "flat"      *)
(* (std < EPS), "scored", or "raised".                                     *)
EntryScore(family, sensor_weights, info, numeric) ==
    LET n == numeric.n
        sensor == Get(info, "target_sensor", "")
        zeros == Full(n, <<0, 1>>)
    IN  IF ~IsDict(info) \/ sensor = "" \/ sensor \notin DOMAIN numeric.cols
          THEN [status |-> "skipped", add |-> zeros]
        ELSE
          Let(Forecast(family, info, numeric.cols[sensor]), LAMBDA f :
            IF ~f.ok THEN [status |-> "raised", add |-> zeros]
            ELSE
              Let(Residual(numeric.cols[sensor],
                           IF Len(f.val) # n THEN Resize(f.val, n) ELSE f.val), LAMBDA residual :
              Let(ResidualInts(residual), LAMBDA r :
              Let(VarN2(r), LAMBDA v :
                LET zth == Get(info, "z_threshold", QInt(3))
                    w == Get(sensor_weights, sensor, QInt(1))
                    imp == Get(info, "importance", QInt(1))
                IN  IF StdBelowEps(v) THEN [status |-> "flat", add |-> zeros]
                    ELSE [status |-> "scored",
                          add |-> Tup([ i \in 1..n |->
                                     Contribution(family, Violation(family, r[i], n, v, zth), w, imp) ])]))))

EntryScores(family, sensor_weights, models, numeric) ==
    Tup([ k \in 1..Len(models) |-> EntryScore(family, sensor_weights, models[k], numeric) ])

(* _aggregate_score of the four forecast-entry wrappers: [ok, val, err,    *)
(* parts]; parts are the loop's per-entry additions.                       *)
AggregateScore(family, sensor_weights, models, X) ==
    Let(EnsureNumeric(X), LAMBDA numeric :
      IF numeric.n = 0 THEN [ok |-> TRUE, val |-> <<>>, err |-> "", parts |-> <<>>]
      ELSE
        Let(EntryScores(family, sensor_weights, models, numeric), LAMBDA parts :
          IF \E k \in 1..Len(models) : parts[k].status = "raised"
            THEN [ok |-> FALSE, val |-> <<>>, err |-> "ValueError", parts |-> <<>>]
          ELSE [ok |-> TRUE,
                val |-> Tup([ i \in 1..numeric.n |->
                             QSum(Tup([ k \in 1..Len(models) |-> parts[k].add[i] ])) ]),
                err |-> "",
                parts |-> parts]))

---------------------------------------------------------------------------
(* Calibrator.  Probabilities are in units of 1e-5 (the clip bound of the  *)
(* code), rounded down.                                                    *)

ProbUnit == 100000

(* 1 / (1 + exp(-k)) for k = 0..12 in units of 1e-5; between the knots the *)
(* model interpolates linearly, which keeps the function increasing.       *)
SigmoidKnots == <<50000, 73106, 88080, 95257, 98201, 99331, 99753,
                  99909, 99966, 99988, 99995, 99998, 99999>>

SigmoidPos(a) ==
    LET k == a[1] \div a[2]
    IN  IF k >= 12 THEN ProbUnit
        ELSE SigmoidKnots[k + 1]
             + ((SigmoidKnots[k + 2] - SigmoidKnots[k + 1]) * (a[1] - k * a[2])) \div a[2]

(* The logistic curve reflected: decreasing in x.                          *)
SigmoidFalling(x) ==
    IF x[1] >= 0 THEN ProbUnit - SigmoidPos(x) ELSE SigmoidPos(<<0 - x[1], x[2]>>)

Sigmoid(x) == IF x[1] >= 0 THEN SigmoidPos(x) ELSE ProbUnit - SigmoidPos(<<-x[1], x[2]>>)

(* np.clip(prob, 1e-5, 1 - 1e-5)                                           *)
Clip(p) == Max(1, Min(ProbUnit - 1, p))

(* float(self.anomaly_threshold or default)                                *)
OrDefault(threshold, default) == IF threshold[1] = 0 THEN default ELSE threshold

SumWeights(sensor_weights) ==
    LET RECURSIVE S(_)
        S(ts) == IF ts = {} THEN <<0, 1>>
                 ELSE LET t == CHOOSE x \in ts : TRUE
                      IN  QAdd(sensor_weights[t], S(ts \ {t}))
    IN  S(DOMAIN sensor_weights)

(* scale = max(sum(weights) / 3.0, 0.75); /4.0 and 0.5 in the              *)
(* high-sensitivity wrapper.                                               *)
ProbaScale(family, sensor_weights) ==
    IF family = "high_sensitivity"
      THEN QMax(QDivInt(SumWeights(sensor_weights), 4), Q(1, 2))
      ELSE QMax(QDivInt(SumWeights(sensor_weights), 3), Q(3, 4))

Logit(raw, center, scale) ==
    LET d == QSub(raw, center) IN Q(d[1] * scale[2], d[2] * scale[1])

ProbaRow(p) == <<ProbUnit - p, p>>

---------------------------------------------------------------------------
(* The forecast-entry wrappers (ArimaWrapper, HoltWintersWrapper,          *)
(* ExpESDZScoreWrapper, HighSensitivityWrapper).                           *)

NoWrapper == [status |-> "none"]

(* __init__: BaseModelWrapper.__init__ raises TypeError on a non-mapping.  *)
ForecastWrapperInit(family, model_dict) ==
    IF ~IsDict(model_dict) THEN [status |-> "TypeError", family |-> family]
    ELSE LET base == BaseInit(model_dict)
             models == IF family = "arima" THEN ArimaModels(model_dict)
                       ELSE ForecastOnlyModels(model_dict)
         IN  [ status |-> "built",
               family |-> family,
               model_dict |-> model_dict,
               anomaly_threshold |-> base.anomaly_threshold,
               models |-> models,
               sensor_weights |-> ComputeInverseFrequency(models) ]

DecideStrict(raw, thr) == Tup([ i \in 1..Len(raw) |-> IF QLt(thr, raw[i]) THEN 1 ELSE 0 ])

(* predict: (raw >= thr).astype(int)                                       *)
Decide(raw, thr) == Tup([ i \in 1..Len(raw) |-> IF QLe(thr, raw[i]) THEN 1 ELSE 0 ])

ForecastPredict(w, X) ==
    Let(AggregateScore(w.family, w.sensor_weights, w.models, X), LAMBDA agg :
      LET thr == OrDefault(w.anomaly_threshold, QInt(1))
      IN  [ op |-> "predict", X |-> X, ok |-> agg.ok, err |-> agg.err,
            raw |-> agg.val, parts |-> agg.parts, thr |-> thr,
            out |-> IF agg.ok THEN Decide(agg.val, thr) ELSE <<>> ])

(* predict_proba: one row [1.0, 0.0] for an empty raw vector.              *)
ForecastPredictProba(w, X) ==
    Let(AggregateScore(w.family, w.sensor_weights, w.models, X), LAMBDA agg :
    Let(ProbaScale(w.family, w.sensor_weights), LAMBDA scale :
      LET center == OrDefault(w.anomaly_threshold, QInt(1))
      IN  [ op |-> "predict_proba", X |-> X, ok |-> agg.ok, err |-> agg.err,
            raw |-> agg.val, parts |-> agg.parts, thr |-> center,
            out |-> IF ~agg.ok THEN <<>>
                    ELSE IF Len(agg.val) = 0 THEN << <<ProbUnit, 0>> >>
                    ELSE Tup([ i \in 1..Len(agg.val) |->
                            ProbaRow(Clip(Sigmoid(Logit(agg.val[i], center, scale)))) ]) ]))

---------------------------------------------------------------------------
(* The global-statistics wrappers (CUSUMWrapper, ZScoreWrapper,            *)
(* EWMAWrapper, RollingQuantileWrapper).  A detector object is a record    *)
(* with "kind" = "other" and its attributes; None is [kind |-> "none"].    *)
(* Scores are in units of 1e-5 like the probabilities and z-scores in      *)
(* units of 1e-3, both rounded down.                                       *)

None == [kind |-> "none"]

IsNone(x) == x.kind = "none"

ZUnit == ProbUnit \div 100

RECURSIVE ISqrtIn(_, _, _)
ISqrtIn(x, lo, hi) ==
    IF lo >= hi THEN lo
    ELSE IF ((lo + hi + 1) \div 2) * ((lo + hi + 1) \div 2) <= x
      THEN ISqrtIn(x, (lo + hi + 1) \div 2, hi)
      ELSE ISqrtIn(x, lo, ((lo + hi + 1) \div 2) - 1)

(* The integer part of the square root.                                    *)
ISqrt(x) == ISqrtIn(x, 0, Min(x, 46340))

Zeros(n) == Tup([ i \in 1..n |-> 0 ])

RECURSIVE MaxOf(_)
MaxOf(s) == IF Len(s) = 1 THEN s[1] ELSE Max(s[1], MaxOf(Tail(s)))

RECURSIVE FSum(_, _)
FSum(f, S) ==
    IF S = {} THEN 0
    ELSE LET c == CHOOSE x \in S : TRUE IN f[c] + FSum(f, S \ {c})

(* series - global_mean, times n and divided by the common factor; the     *)
(* z-scores |series - mean| / std are unchanged by the scaling.            *)
Deviations(series) ==
    Let(IntSum(series), LAMBDA total :
      Let(Tup([ i \in 1..Len(series) |-> Len(series) * series[i] - total ]), LAMBDA d :
        DivideAll(d, GCDSeq(d))))

SumSquares(d) == IntSum(Tup([ i \in 1..Len(d) |-> d[i] * d[i] ]))

(* np.minimum(np.abs((series - mean) / (std + EPS)), 5.0); a column with   *)
(* std < EPS is skipped and adds nothing.                                  *)
ColumnCappedZ(series) ==
    Let(Deviations(series), LAMBDA d :
      Let(SumSquares(d), LAMBDA ss :
        IF ss = 0 THEN Zeros(Len(d))
        ELSE Tup([ i \in 1..Len(d) |->
               Min(ISqrt((d[i] * d[i] * Len(d) * ZUnit * ZUnit) \div ss), 5 * ZUnit) ])))

(* (np.abs((series - mean) / (std + EPS)) > threshold).astype(float)       *)
ColumnFlags(series, threshold) ==
    Let(Deviations(series), LAMBDA d :
      Let(SumSquares(d), LAMBDA ss :
        IF ss = 0 THEN Zeros(Len(d))
        ELSE Tup([ i \in 1..Len(d) |->
               IF threshold[1] < 0
                    \/ d[i] * d[i] * Len(d) * threshold[2] * threshold[2]
                         > threshold[1] * threshold[1] * ss
                 THEN 1 ELSE 0 ])))

(* anomaly_scores summed over the numeric columns, by row.                 *)
SumByRow(numeric, scores) ==
    Tup([ i \in 1..numeric.n |->
           FSum([ c \in DOMAIN numeric.cols |-> scores[c][i] ], DOMAIN numeric.cols) ])

(* anomaly_scores / n_cols, then / max_score when max_score > 0: the       *)
(* column count cancels.  Then np.clip(anomaly_scores, 0, 1).              *)
NormaliseByMax(sums) ==
    Let(MaxOf(sums), LAMBDA max_score :
      IF max_score > 0
        THEN Tup([ i \in 1..Len(sums) |->
               Max(0, Min(ProbUnit, (sums[i] * ProbUnit) \div max_score)) ])
        ELSE Zeros(Len(sums)))

(* The capped z-scores averaged over the columns and divided by their      *)
(* maximum (CUSUMWrapper.predict_proba, the fallback of ZScoreWrapper and  *)
(* RollingQuantileWrapper._simple_anomaly_scores).                         *)
GlobalZScores(numeric) ==
    Let([ c \in DOMAIN numeric.cols |-> ColumnCappedZ(numeric.cols[c]) ], LAMBDA scores :
      NormaliseByMax(SumByRow(numeric, scores)))

Rows(scores) == Tup([ i \in 1..Len(scores) |-> ProbaRow(scores[i]) ])

(* The dict a wrapper makes up for a detector object.                      *)
SyntheticDict(threshold) ==
    With(With(Dict, "training_params", With(Dict, "anomaly_threshold", threshold)),
         "config", With(Dict, "anomaly_threshold", threshold))

(* CUSUMWrapper.__init__ and ZScoreWrapper.__init__                        *)
DetectorWrapperInit(family, key, model_dict, threshold) ==
    IF IsNone(model_dict)
      THEN [ status |-> "built", family |-> family, model_dict |-> Dict,
             anomaly_threshold |-> BaseInit(Dict).anomaly_threshold,
             detector |-> None, from_object |-> FALSE ]
    ELSE IF ~IsDict(model_dict)
      THEN [ status |-> "built", family |-> family,
             model_dict |-> SyntheticDict(threshold),
             anomaly_threshold |-> BaseInit(SyntheticDict(threshold)).anomaly_threshold,
             detector |-> model_dict, from_object |-> TRUE ]
    ELSE [ status |-> "built", family |-> family, model_dict |-> model_dict,
           anomaly_threshold |-> BaseInit(model_dict).anomaly_threshold,
           detector |-> Get(model_dict, key, None), from_object |-> FALSE ]

(* CUSUMWrapper.__init__ with the synthetic threshold taken as 0.5.        *)
CUSUMInitHalf(model_dict) ==
    DetectorWrapperInit("cusum", "cusum_model", model_dict, Q(1, 2))

CUSUMInit(model_dict) == DetectorWrapperInit("cusum", "cusum_model", model_dict, QInt(5))

ZScoreInit(model_dict) == DetectorWrapperInit("zscore", "zscore_model", model_dict, Q(1, 2))

(* CUSUMWrapper.predict_proba                                              *)
CUSUMPredictProba(w, X) ==
    Let(EnsureNumeric(X), LAMBDA numeric :
      IF numeric.n = 0 THEN Ok(<< <<ProbUnit, 0>> >>)
      ELSE Ok(Rows(GlobalZScores(numeric))))

(* ZScoreWrapper.predict_proba                                             *)
ZScorePredictProba(w, X) ==
    Let(EnsureNumeric(X), LAMBDA numeric :
      IF numeric.n = 0 THEN Ok(<< <<ProbUnit, 0>> >>)
      ELSE IF ~IsNone(w.detector)
        THEN Let([ c \in DOMAIN numeric.cols |->
                     ColumnFlags(numeric.cols[c],
                                 Get(w.detector, "threshold_multiplier", QInt(3))) ],
                 LAMBDA scores : Ok(Rows(NormaliseByMax(SumByRow(numeric, scores)))))
      ELSE Ok(Rows(GlobalZScores(numeric))))

(* (raw_scores >= threshold).astype(int) on column 1 of predict_proba      *)
DecideScores(proba, thr) ==
    Tup([ i \in 1..Len(proba) |->
           IF proba[i][2] * thr[2] >= thr[1] * ProbUnit THEN 1 ELSE 0 ])

(* EWMAControlChart.  ewma_mean and ewma_variance are in units of 1e-3; a  *)
(* chart without the field holds None there.                               *)
EUnit == ZUnit

(* EWMAControlChart.fit                                                    *)
Fit(chart, data) ==
    IF Len(data) = 0
      THEN With(With(With(chart, "ewma_mean", 0), "ewma_variance", EUnit), "initialized", TRUE)
      ELSE With(With(With(chart,
             "ewma_mean", (IntSum(data) * EUnit) \div Len(data)),
             "ewma_variance", IF VarN2(data) > 0
                                THEN (VarN2(data) * EUnit) \div (Len(data) * Len(data))
                                ELSE EUnit),
             "initialized", TRUE)

(* EWMAWrapper.__init__, "Ensure model is initialized"                     *)
EnsureInitialized(chart) ==
    IF Get(chart, "initialized", FALSE) THEN chart
    ELSE With(With(With(chart,
           "ewma_variance", Get(chart, "ewma_variance", EUnit)),
           "ewma_mean", Get(chart, "ewma_mean", 0)),
           "initialized", TRUE)

(* EWMAWrapper.__init__                                                    *)
EWMAInit(model_dict) ==
    IF ~IsDict(model_dict) THEN [status |-> "TypeError", family |-> "ewma"]
    ELSE LET base == BaseInit(model_dict)
             ewma_params == Get(model_dict, "ewma_params", Dict)
             default == [ kind |-> "other",
                          alpha |-> Get(ewma_params, "alpha", Q(1, 5)),
                          L |-> Get(ewma_params, "L", QInt(3)),
                          threshold |-> Get(base.training_params, "anomaly_threshold", QInt(1)),
                          initialized |-> FALSE ]
             ewma_model ==
                 IF ~IsNone(Get(model_dict, "ewma_model", None)) THEN model_dict["ewma_model"]
                 ELSE IF "fit_data" \in DOMAIN model_dict
                   THEN Fit(default, model_dict["fit_data"])
                 ELSE default
         IN  [ status |-> "built", family |-> "ewma", model_dict |-> model_dict,
               anomaly_threshold |-> base.anomaly_threshold,
               detector |-> EnsureInitialized(ewma_model), from_object |-> FALSE ]

(* One row of _compute_ewma_scores: min(min(|x - ewma| / sqrt(max(var,     *)
(* EPS)), 5.0) / (L + EPS), 1.0).                                          *)
EWMAScore(chart, x, ewma, ewma_var) ==
    LET deviation == Abs(x * EUnit - ewma)
        std_dev == ISqrt(Max(ewma_var, 0) * EUnit)
        z_score == IF std_dev = 0 THEN (IF deviation = 0 THEN 0 ELSE 5 * ZUnit)
                   ELSE Min((deviation * ZUnit) \div std_dev, 5 * ZUnit)
        unit == ProbUnit \div ZUnit
        L == chart.L
    IN  IF L[1] = 0 THEN (IF z_score = 0 THEN 0 ELSE ProbUnit)
        ELSE IF L[1] < 0 THEN 0 - ((z_score * unit * L[2]) \div (0 - L[1]))
        ELSE Min((z_score * unit * L[2]) \div L[1], ProbUnit)

(* ewma = alpha * x + (1 - alpha) * ewma                                   *)
NextEWMA(chart, x, ewma) ==
    (chart.alpha[1] * x * EUnit + (chart.alpha[2] - chart.alpha[1]) * ewma)
      \div chart.alpha[2]

(* ewma_var = alpha * (x - ewma) ** 2 + (1 - alpha) * ewma_var, with the   *)
(* updated ewma.                                                           *)
NextEWMAVar(chart, x, ewma, ewma_var) ==
    (chart.alpha[1] * (((x * EUnit - ewma) * (x * EUnit - ewma)) \div EUnit)
       + (chart.alpha[2] - chart.alpha[1]) * ewma_var) \div chart.alpha[2]

RECURSIVE EWMAFrom(_, _, _, _, _)
EWMAFrom(chart, X, i, ewma, ewma_var) ==
    IF i > Len(X) THEN <<>>
    ELSE Let(NextEWMA(chart, X[i], ewma), LAMBDA next :
           <<EWMAScore(chart, X[i], ewma, ewma_var)>>
             \o EWMAFrom(chart, X, i + 1, next, NextEWMAVar(chart, X[i], next, ewma_var)))

(* The loop started from mean 0.0 and variance 1.0 instead of the chart's   *)
(* stored values.                                                          *)
ComputeEWMAScoresFromDefault(chart, X) == Ok(EWMAFrom(chart, X, 1, 0, EUnit))

(* EWMAControlChart._compute_ewma_scores; abs(x - None) raises TypeError.  *)
ComputeEWMAScores(chart, X) ==
    IF ~Get(chart, "initialized", FALSE) \/ "ewma_variance" \notin DOMAIN chart
      THEN Ok(Zeros(Len(X)))
    ELSE IF Len(X) > 0 /\ "ewma_mean" \notin DOMAIN chart THEN Raise("TypeError")
    ELSE Ok(EWMAFrom(chart, X, 1, Get(chart, "ewma_mean", 0), chart["ewma_variance"]))

(* EWMAWrapper.predict_proba                                               *)
EWMAPredictProba(w, X) ==
    Let(EnsureNumeric(X), LAMBDA numeric :
      IF numeric.n = 0 THEN Ok(<< <<ProbUnit, 0>> >>)
      ELSE Let([ c \in DOMAIN numeric.cols |-> ComputeEWMAScores(w.detector, numeric.cols[c]) ],
             LAMBDA col_scores :
               IF \E c \in DOMAIN numeric.cols : ~col_scores[c].ok THEN Raise("TypeError")
               ELSE LET n_cols == Cardinality(DOMAIN numeric.cols)
                        sums == SumByRow(numeric, [ c \in DOMAIN numeric.cols |-> col_scores[c].val ])
                    IN  Ok(Rows(Tup([ i \in 1..numeric.n |->
                              Max(0, Min(ProbUnit,
                                  IF n_cols > 0 THEN sums[i] \div n_cols ELSE sums[i])) ])))))

(* RollingQuantileWrapper.__init__: only a detector object gives the       *)
(* wrapper a voting_threshold attribute.                                   *)
RollingInit(model_dict) ==
    IF ~IsNone(model_dict) /\ ~IsDict(model_dict)
      THEN With(DetectorWrapperInit("rolling_quantile", "rolling_model", model_dict,
                                    Get(model_dict, "voting_threshold", Q(3, 10))),
                "voting_threshold", Get(model_dict, "voting_threshold", Q(3, 10)))
      ELSE DetectorWrapperInit("rolling_quantile", "rolling_model", model_dict, NoQ)

RECURSIVE Sorted(_)
Sorted(s) ==
    IF Len(s) <= 1 THEN s
    ELSE LET k == CHOOSE j \in 1..Len(s) : \A l \in 1..Len(s) : s[j] <= s[l]
         IN  <<s[k]>> \o Sorted(SubSeq(s, 1, k - 1) \o SubSeq(s, k + 1, Len(s)))

(* np.percentile(window_data, q * 100), linear interpolation.              *)
Percentile(window_data, q) ==
    Let(Sorted(window_data), LAMBDA a :
      LET lo == (q[1] * (Len(a) - 1)) \div q[2]
          frac == q[1] * (Len(a) - 1) - lo * q[2]
      IN  IF lo + 2 > Len(a) THEN QInt(a[lo + 1])
          ELSE QAdd(QInt(a[lo + 1]), Q(frac * (a[lo + 2] - a[lo + 1]), q[2])))

(* The window of row i taken without row i itself: series[start_idx:i].    *)
WindowDataBefore(series, i, window_size) ==
    SubSeq(series, Max(0, i - window_size) + 1, i - 1)

(* series[max(0, i - window_size + 1) : i + 1], rows counted from 1.       *)
WindowData(series, i, window_size) ==
    SubSeq(series, Max(0, i - window_size) + 1, i)

(* The bounds of row i in _manual_predict_proba.                           *)
RowBounds(detector, params, series, i) ==
    Let(WindowData(series, i, Get(detector, "window_size", 2)), LAMBDA window_data :
      IF Len(window_data) > 0
        THEN Let(Percentile(window_data, Get(detector, "lower_quantile", Q(1, 4))), LAMBDA q25 :
             Let(Percentile(window_data, Get(detector, "upper_quantile", Q(3, 4))), LAMBDA q75 :
               LET spread == QMul(Get(detector, "iqr_multiplier", QInt(2)), QSub(q75, q25))
               IN  [lower |-> QSub(q25, spread), upper |-> QAdd(q75, spread)]))
        ELSE [ lower |-> Get(params, "global_lower", QInt(series[i])),
               upper |-> Get(params, "global_upper", QInt(series[i])) ])

SensorAnomalies(detector, params, series) ==
    Tup([ i \in 1..Len(series) |->
           Let(RowBounds(detector, params, series, i), LAMBDA b :
             IF QLt(QInt(series[i]), b.lower) \/ QLt(b.upper, QInt(series[i]))
               THEN 1 ELSE 0) ])

(* RollingQuantileWrapper._manual_predict_proba                            *)
ManualPredictProba(w, numeric) ==
    IF IsNone(w.detector) THEN GlobalZScores(numeric)
    ELSE LET sensor_params == Get(w.detector, "sensor_params", Dict)
             n_cols == Cardinality(DOMAIN numeric.cols)
             flags == [ c \in DOMAIN numeric.cols |->
                          IF c \in DOMAIN sensor_params
                            THEN SensorAnomalies(w.detector, sensor_params[c], numeric.cols[c])
                            ELSE Zeros(numeric.n) ]
         IN  Let(SumByRow(numeric, flags), LAMBDA sums :
               Tup([ i \in 1..numeric.n |->
                      IF n_cols > 0 THEN (sums[i] * ProbUnit) \div n_cols ELSE sums[i] ]))

(* RollingQuantileWrapper.predict_proba; the detector's own predict_proba  *)
(* returns the anomaly probability `value` for every row, or raises.       *)
RollingPredictProba(w, X) ==
    Let(EnsureNumeric(X), LAMBDA numeric :
      IF numeric.n = 0 THEN Ok(<< <<ProbUnit, 0>> >>)
      ELSE Let(IF /\ ~IsNone(w.detector)
                  /\ "predict_proba" \in Get(w.detector, "caps", {})
                  /\ ~w.detector.raises
                 THEN Full(numeric.n, w.detector.value)
                 ELSE ManualPredictProba(w, numeric),
             LAMBDA anomaly_scores :
               Ok(Rows(Tup([ i \in 1..Len(anomaly_scores) |->
                              Max(0, Min(ProbUnit, anomaly_scores[i])) ])))))

(* float(self.anomaly_threshold or self.voting_threshold or 0.3)           *)
RollingThreshold(w) ==
    IF w.anomaly_threshold[1] # 0 THEN Ok(w.anomaly_threshold)
    ELSE IF "voting_threshold" \notin DOMAIN w THEN Raise("AttributeError")
    ELSE Ok(OrDefault(w.voting_threshold, Q(3, 10)))

---------------------------------------------------------------------------
(* The wrappers by family.                                                 *)

WrapperInit(family, model_dict) ==
    CASE family \in ForecastFamilies ->
           IF IsNone(model_dict) THEN [status |-> "TypeError", family |-> family]
           ELSE ForecastWrapperInit(family, model_dict)
      [] family = "cusum" -> CUSUMInit(model_dict)
      [] family = "zscore" -> ZScoreInit(model_dict)
      [] family = "ewma" ->
           IF IsNone(model_dict) THEN [status |-> "TypeError", family |-> family]
           ELSE EWMAInit(model_dict)
      [] family = "rolling_quantile" -> RollingInit(model_dict)

DetectorPredictProba(w, X) ==
    CASE w.family = "cusum" -> CUSUMPredictProba(w, X)
      [] w.family = "zscore" -> ZScorePredictProba(w, X)
      [] w.family = "ewma" -> EWMAPredictProba(w, X)
      [] w.family = "rolling_quantile" -> RollingPredictProba(w, X)

Column1(proba) == Tup([ i \in 1..Len(proba) |-> proba[i][2] ])

(* predict of the four global-statistics wrappers: the threshold is        *)
(* applied to column 1 of predict_proba.                                   *)
DetectorPredict(w, X) ==
    Let(DetectorPredictProba(w, X), LAMBDA scores :
    Let(IF w.family = "rolling_quantile" THEN RollingThreshold(w)
        ELSE Ok(OrDefault(w.anomaly_threshold, Q(1, 2))), LAMBDA threshold :
      IF ~scores.ok
        THEN [ op |-> "predict", X |-> X, ok |-> FALSE, err |-> scores.err,
               raw |-> <<>>, parts |-> <<>>, thr |-> NoQ, out |-> <<>> ]
      ELSE IF ~threshold.ok
        THEN [ op |-> "predict", X |-> X, ok |-> FALSE, err |-> threshold.err,
               raw |-> Column1(scores.val), parts |-> <<>>, thr |-> NoQ, out |-> <<>> ]
      ELSE [ op |-> "predict", X |-> X, ok |-> TRUE, err |-> "",
             raw |-> Column1(scores.val), parts |-> <<>>, thr |-> threshold.val,
             out |-> DecideScores(scores.val, threshold.val) ]))

WrapperPredict(w, X) ==
    IF w.family \in ForecastFamilies THEN ForecastPredict(w, X) ELSE DetectorPredict(w, X)

WrapperPredictProba(w, X) ==
    IF w.family \in ForecastFamilies THEN ForecastPredictProba(w, X)
    ELSE Let(DetectorPredictProba(w, X), LAMBDA scores :
           [ op |-> "predict_proba", X |-> X, ok |-> scores.ok, err |-> scores.err,
             raw |-> IF scores.ok THEN Column1(scores.val) ELSE <<>>, parts |-> <<>>,
             thr |-> NoQ, out |-> scores.val ])

---------------------------------------------------------------------------
(* Family classification (utils/model_loader.py).  File names and          *)
(* model_type values are sequences of characters, so that lower() and the  *)
(* substring tests are computed.                                           *)

UpperChars ==
    << "A", "B", "C", "D", "E", "F", "G", "H", "I", "J", "K", "L", "M",
       "N", "O", "P", "Q", "R", "S", "T", "U", "V", "W", "X", "Y", "Z" >>

LowerChars ==
    << "a", "b", "c", "d", "e", "f", "g", "h", "i", "j", "k", "l", "m",
       "n", "o", "p", "q", "r", "s", "t", "u", "v", "w", "x", "y", "z" >>

LowerChar(c) ==
    IF \E k \in 1..Len(UpperChars) : UpperChars[k] = c
      THEN LowerChars[CHOOSE k \in 1..Len(UpperChars) : UpperChars[k] = c]
      ELSE c

(* str.lower()                                                             *)
Lower(str) == Tup([ i \in 1..Len(str) |-> LowerChar(str[i]) ])

(* kw in str                                                               *)
In(kw, str) ==
    \E i \in 0..(Len(str) - Len(kw)) : SubSeq(str, i + 1, i + Len(kw)) = kw

S_rolling == <<"r", "o", "l", "l", "i", "n", "g">>

S_ewma == <<"e", "w", "m", "a">>

S_cusum == <<"c", "u", "s", "u", "m">>

S_zscore == <<"z", "s", "c", "o", "r", "e">>

S_exp == <<"e", "x", "p">>

S_esd == <<"e", "s", "d">>

S_holt == <<"h", "o", "l", "t">>

S_winters == <<"w", "i", "n", "t", "e", "r", "s">>

S_high_sensitivity ==
    <<"h", "i", "g", "h", "_", "s", "e", "n", "s", "i", "t", "i", "v", "i", "t", "y">>

S_arima == <<"a", "r", "i", "m", "a">>

S_rolling_quantile == S_rolling \o <<"_", "q", "u", "a", "n", "t", "i", "l", "e">>

S_exp_esd_zscore == S_exp \o <<"_">> \o S_esd \o <<"_">> \o S_zscore

S_holt_winters == S_holt \o <<"_">> \o S_winters

(* The rules with "ewma" tried before "rolling".                           *)
InferFromNameSwapped(fname) ==
    IF In(S_ewma, fname) THEN S_ewma
    ELSE IF In(S_rolling, fname) THEN S_rolling_quantile
    ELSE IF In(S_cusum, fname) THEN S_cusum
    ELSE IF In(S_zscore, fname) /\ ~(In(S_exp, fname) /\ In(S_esd, fname)) THEN S_zscore
    ELSE IF In(S_exp, fname) /\ In(S_esd, fname) /\ In(S_zscore, fname) THEN S_exp_esd_zscore
    ELSE IF In(S_holt, fname) \/ In(S_winters, fname) THEN S_holt_winters
    ELSE IF In(S_high_sensitivity, fname) THEN S_high_sensitivity
    ELSE S_arima

(* _infer_model_type, the rules on the lower-cased file name.              *)
InferFromName(fname) ==
    IF In(S_rolling, fname) THEN S_rolling_quantile
    ELSE IF In(S_ewma, fname) THEN S_ewma
    ELSE IF In(S_cusum, fname) THEN S_cusum
    ELSE IF In(S_zscore, fname) /\ ~(In(S_exp, fname) /\ In(S_esd, fname)) THEN S_zscore
    ELSE IF In(S_exp, fname) /\ In(S_esd, fname) /\ In(S_zscore, fname) THEN S_exp_esd_zscore
    ELSE IF In(S_holt, fname) \/ In(S_winters, fname) THEN S_holt_winters
    ELSE IF In(S_high_sensitivity, fname) THEN S_high_sensitivity
    ELSE S_arima

(* _infer_model_type: obj.get("model_type"), when truthy, decides.         *)
InferModelType(file_name, obj) ==
    IF Truthy(Get(obj, "model_type", <<>>))
      THEN Lower(obj["model_type"])
      ELSE InferFromName(Lower(file_name))

(* load_model_by_name, the dispatch on mtype for a mapping artifact.       *)
DispatchFamily(mtype) ==
    IF mtype = S_ewma THEN "ewma"
    ELSE IF mtype = S_cusum THEN "cusum"
    ELSE IF mtype = S_zscore THEN "zscore"
    ELSE IF mtype = S_arima THEN "arima"
    ELSE IF mtype = S_holt_winters THEN "holt_winters"
    ELSE IF mtype = S_exp_esd_zscore THEN "exp_esd_zscore"
    ELSE IF mtype = S_high_sensitivity THEN "high_sensitivity"
    ELSE IF mtype = S_rolling_quantile THEN "rolling_quantile"
    ELSE "arima"

---------------------------------------------------------------------------
(* Inputs of the model: entries, artifacts and batches.                    *)

Opt(d, k, v, absent) == IF v = absent THEN d ELSE With(d, k, v)

Entry(t, z, w, imp, lv) ==
    Opt(Opt(Opt(Opt(With(Dict, "target_sensor", t),
        "z_threshold", z, NoQ), "window_size", w, 0 - 1), "importance", imp, NoQ),
        "last_values", lv, <<>>)

ZThresholds == {NoQ, <<1, 1>>, <<0, 1>>, <<-1, 1>>}

Importances == {NoQ, <<2, 1>>, <<-1, 1>>}

P1Entries ==
    { Entry("P1", z, w, imp, lv) :
        z \in ZThresholds, w \in {0 - 1, 2}, imp \in Importances, lv \in {<<>>, <<5, 2>>} }

PlainEntries == { Entry("P1", z, 0 - 1, imp, <<>>) : z \in ZThresholds, imp \in Importances }

NoTarget == With(Dict, "z_threshold", <<1, 1>>)

EmptyTarget == Entry("", <<1, 1>>, 0 - 1, NoQ, <<>>)

FittedEntry == With(Entry("P1", <<1, 1>>, 2, NoQ, <<>>), "fitted_model",
                    [caps |-> {"forecast"}, raises |-> FALSE, value |-> 0])

(* The single entry of the FIT101 end-to-end case.                         *)
FIT101Entry == Entry("FIT101", <<3, 1>>, 5, <<1, 1>>, <<>>)

ForecastMaps ==
    { <<e>> : e \in P1Entries }
    \cup { <<e, e>> : e \in PlainEntries }
    \cup { <<e, NotADict, EmptyTarget, NoTarget, Entry("P2", <<1, 1>>, 0 - 1, NoQ, <<>>)>> :
             e \in PlainEntries }
    \cup { << Entry("P1", <<1, 1>>, 0 - 1, NoQ, <<>>), Entry("P1", <<0, 1>>, 0 - 1, NoQ, <<>>),
              Entry("P1", <<-1, 1>>, 0 - 1, NoQ, <<>>), Entry("P2", <<0, 1>>, 0 - 1, NoQ, <<>>) >>,
           <<FittedEntry>>, <<FIT101Entry>>, <<NotADict>> }

Thresholds == {NoQ, <<1, 1>>, <<5, 4>>}

WithThreshold(d, t) ==
    IF t = NoQ THEN d ELSE With(d, "training_params", With(Dict, "anomaly_threshold", t))

(* Artifacts whose training_params and config give, or do not give, an    *)
(* anomaly_threshold.                                                      *)
WithBoth(d, tp, cfg) ==
    Opt(Opt(d, "training_params", IF tp = NoQ THEN Dict ELSE With(Dict, "anomaly_threshold", tp),
            Dict),
        "config", IF cfg = NoQ THEN Dict ELSE With(Dict, "anomaly_threshold", cfg), Dict)

GivenThresholds == {NoQ, <<0, 1>>, <<2, 1>>, <<-1, 1>>}

ThresholdArtifacts ==
    { WithBoth(With(Dict, "forecast_models", <<Entry("P1", <<1, 1>>, 0 - 1, NoQ, <<>>)>>),
               tp, cfg) :
        tp \in GivenThresholds, cfg \in {NoQ, <<0, 1>>, <<3, 1>>} }

(* Artifacts with both key names, forecast_models given or empty.          *)
BothKeys ==
    { With(With(Dict, "forecast_models", fm),
           "arima_models", <<Entry("P1", <<1, 1>>, 0 - 1, NoQ, <<>>)>>) :
        fm \in { <<>>, <<Entry("P1", <<0, 1>>, 0 - 1, NoQ, <<>>)>> } }

Artifacts ==
    { WithThreshold(With(Dict, "forecast_models", m), t) : m \in ForecastMaps, t \in Thresholds }
    \cup { WithThreshold(With(Dict, "arima_models", <<e>>), t) :
             e \in PlainEntries, t \in Thresholds }
    \cup ThresholdArtifacts
    \cup BothKeys
    \cup { Dict, NotADict }

(* Detector objects and the artifacts of the global-statistics wrappers.   *)
Object(k, v) == With(NotADict, k, v)

Charts ==
    { [kind |-> "other", alpha |-> <<1, 2>>, L |-> <<3, 1>>, threshold |-> <<1, 1>>,
       initialized |-> FALSE],
      [kind |-> "other", alpha |-> <<1, 5>>, L |-> <<1, 1>>, threshold |-> <<1, 1>>,
       initialized |-> TRUE, ewma_mean |-> 500, ewma_variance |-> 250],
      [kind |-> "other", alpha |-> <<1, 5>>, L |-> <<3, 1>>, threshold |-> <<1, 1>>,
       initialized |-> TRUE, ewma_variance |-> 1000] }

RollingDetectors ==
    { With(Opt(Opt(NotADict, "window_size", ws, 0 - 1), "voting_threshold", vt, NoQ),
           "sensor_params", With(Dict, "P1", Dict)) :
        ws \in {0 - 1, 0, 1, 3}, vt \in {NoQ, <<0, 1>>, <<1, 2>>} }
    \cup { [kind |-> "other", caps |-> {"predict_proba"}, raises |-> r, value |-> 40000] :
             r \in BOOLEAN }
    \cup { NotADict }

DetectorArtifacts(family) ==
    { WithBoth(Dict, tp, cfg) : tp \in GivenThresholds, cfg \in {NoQ, <<3, 1>>} }
    \cup {NotADict, None}
    \cup CASE family = "cusum" -> { With(Dict, "cusum_model", NotADict) }
           [] family = "zscore" ->
                { With(Dict, "zscore_model", NotADict), Object("threshold_multiplier", <<1, 1>>),
                  With(Dict, "zscore_model", Object("threshold_multiplier", <<-1, 1>>)) }
           [] family = "ewma" ->
                { With(Dict, "ewma_model", c) : c \in Charts }
                \cup { With(Dict, "fit_data", d) : d \in {<<>>, <<0, 1>>, <<1, 1>>} }
                \cup { With(Dict, "ewma_params", With(With(Dict, "alpha", <<1, 2>>), "L", l)) :
                         l \in {<<1, 1>>, <<0, 1>>} }
           [] family = "rolling_quantile" ->
                RollingDetectors \cup { With(Dict, "rolling_model", d) : d \in RollingDetectors }

WrapperInputs ==
    { <<family, model_dict>> : family \in ForecastFamilies, model_dict \in Artifacts }
    \cup UNION { { <<family, model_dict>> : model_dict \in DetectorArtifacts(family) } :
                   family \in Families \ ForecastFamilies }

Values == {0, 1}

AllSeries == UNION { [1..n -> Values] : n \in 0..MaxLen }

Column(vals) == [dtype |-> "num", vals |-> vals]

OneColumn(c, vals) == [n |-> Len(vals), cols |-> (c :> Column(vals))]

(* FIT101 = twenty 1s followed by 50.                                      *)
FIT101Batch == OneColumn("FIT101", [i \in 1..21 |-> IF i = 21 THEN 50 ELSE 1])

Batches ==
    { OneColumn("P1", s) : s \in AllSeries }
    \cup { [n |-> 2, cols |-> ("P1" :> Column(<<0, 1>>)) @@ ("P2" :> Column(<<3, 0>>))],
           [n |-> 2, cols |-> ("P1" :> [dtype |-> "str", vals |-> <<0, 1>>])],
           [n |-> 2, cols |-> ("P2" :> Column(<<3, 0>>))],
           FIT101Batch }

(* The batches a wrapper of the family is called with.                     *)
BatchesFor(family) ==
    IF family \in ForecastFamilies THEN Batches
    ELSE (Batches \ {FIT101Batch})
         \cup { [n |-> 0, cols |-> ("P1" :> Column(<<>>)) @@ ("P2" :> Column(<<>>))],
                [n |-> 3, cols |-> ("P1" :> Column(<<0, 1, 1>>)) @@ ("P2" :> Column(<<1, 0, 1>>))] }

---------------------------------------------------------------------------
(* The artifact loader (utils/model_loader.py) and its caller in main.py.  *)
(* A wrapped scorer object is identified by <<cache key, serial>>: the     *)
(* serial-th wrapper constructed for the key.  heap[key] lists, per        *)
(* wrapper constructed for the key, its family, the model name, and        *)
(* whether clear_cache has run since its construction (stale).             *)

(* The callers: request handlers in flight.                                *)
Callers == {"c1", "c2"}

MaxObjects == 3

(* str(BASE_DIR / "models")                                                *)
ModelsDir == <<"m", "o", "d", "e", "l", "s">>

(* The model names a request can carry, and what the file <name>.pkl       *)
(* holds when it exists: a mapping artifact, or a pickled list.            *)
MappingName == <<"g", "r", "a", "n", "g", "e", "r">>

ListName == <<"n", "o", "t", "e", "s">>

Names == {MappingName, ListName}

ListObject == [kind |-> "other", class |-> "list"]

Stored(name) ==
    IF name = MappingName
      THEN With(Dict, "forecast_models", <<Entry("P1", <<1, 1>>, 0 - 1, NoQ, <<>>)>>)
      ELSE ListObject

(* The classes of the detector objects the loader's comments name.         *)
DetectorClasses ==
    {"RollingQuantileDetector", "ZScoreDynamicThreshold", "CUSUMDetector", "EWMAControlChart"}

(* cache_key = f"{models_dir}::{name}"                                     *)
CacheKey(models_dir, name) == models_dir \o <<":", ":">> \o name

(* cand.name of cand = models_path / f"{name}.pkl"                         *)
CandName(name) == name \o <<".", "p", "k", "l">>

NeverHit(cache, key) == FALSE

(* key in cache                                                            *)
CacheHit(cache, key) == key \in DOMAIN cache

NoStore(cache, key, obj) == cache

(* cache[key] = obj                                                        *)
Store(cache, key, obj) == (key :> obj) @@ cache

(* models_path.exists() and cand.exists()                                  *)
DirExists(d) == d.dir

FileExists(d, name) == d.dir /\ name \in d.files

(* load_model_by_name, the choice of the wrapper class: by mtype for a     *)
(* mapping, by the file name for any other object.                         *)
LoadFamily(cand_name, obj) ==
    IF IsDict(obj) THEN DispatchFamily(InferModelType(cand_name, obj))
    ELSE IF In(S_rolling, Lower(cand_name)) THEN "rolling_quantile"
    ELSE IF In(S_zscore, Lower(cand_name))
            /\ ~(In(S_exp, Lower(cand_name)) /\ In(S_esd, Lower(cand_name)))
      THEN "zscore"
    ELSE "cusum"

NoObject == <<>>

NoResult == [ok |-> FALSE, val |-> NoObject, err |-> "pending"]

Unread == [kind |-> "unread"]

(* A handler: its position, the model name of the request, and what its    *)
(* call has done so far.  cleared: clear_cache has run since the request   *)
(* was made; overlap: another request for the same uncached name           *)
(* was in flight then; cached: a wrapper for the name was in _CACHE when   *)
(* the call began; entered, hit, absent: load_model_by_name was entered,   *)
(* found the key cached, found directory or file missing on entry;         *)
(* changed: directory or file changed while load_model_by_name ran; reads, *)
(* built: file reads and wrapper constructions of the call.                *)
Idle ==
    [ pc |-> "idle", name |-> <<>>, cleared |-> FALSE, overlap |-> FALSE, cached |-> FALSE,
      entered |-> FALSE, hit |-> FALSE, absent |-> FALSE, changed |-> FALSE,
      reads |-> 0, built |-> 0,
      loaded |-> Unread, obj |-> NoObject, result |-> NoResult ]

InLoad == {"l58", "l62", "l67", "l71"}

(* The endpoints that call cached_model are coroutines (async def) with no *)
(* await in their bodies: the event loop runs one of them at a time, from  *)
(* its first statement to its return.                                      *)
NoLoop == TRUE

LoopFree == running = "none"

Finish(c, t, result) ==
    /\ tasks' = [tasks EXCEPT ![c] = [t EXCEPT !.pc = "done", !.result = result]]
    /\ running' = "none"

Step(c, t) ==
    /\ tasks' = [tasks EXCEPT ![c] = t]
    /\ UNCHANGED running

(* A request for a model name arrives; its body is read before the         *)
(* endpoint function is called.                                            *)
Request(c) ==
    /\ tasks[c].pc = "idle"
    /\ \A k \in DOMAIN heap : Len(heap[k]) < MaxObjects
    /\ \E name \in Names :
         tasks' = [tasks EXCEPT ![c] =
                     [Idle EXCEPT !.pc = "pending", !.name = name,
                                  !.overlap = /\ ~(name \in DOMAIN MODEL_CACHE)
                                              /\ \E o \in Callers \ {c} :
                                                   /\ tasks[o].pc = "pending"
                                                   /\ tasks[o].name = name]]
    /\ UNCHANGED <<wrapper, call, fc, cls, disk, CACHE, MODEL_CACHE, heap, running>>

(* The event loop calls the endpoint function, which calls cached_model.   *)
Begin(c) ==
    /\ tasks[c].pc = "pending"
    /\ LoopFree
    /\ tasks' = [tasks EXCEPT ![c].pc = "l68",
                              ![c].cached = CacheKey(ModelsDir, tasks[c].name) \in DOMAIN CACHE]
    /\ running' = c
    /\ UNCHANGED <<wrapper, call, fc, cls, disk, CACHE, MODEL_CACHE, heap>>

(* cached_model line 68: if name in _MODEL_CACHE                           *)
CheckModelCache(c) ==
    /\ tasks[c].pc = "l68"
    /\ Step(c, [tasks[c] EXCEPT !.pc = IF CacheHit(MODEL_CACHE, tasks[c].name)
                                         THEN "l69" ELSE "l70"])
    /\ UNCHANGED <<wrapper, call, fc, cls, disk, CACHE, MODEL_CACHE, heap>>

(* cached_model line 69: return _MODEL_CACHE[name]; the global is read     *)
(* again, KeyError when it was rebound to an empty dict in between.        *)
ReadModelCache(c) ==
    /\ tasks[c].pc = "l69"
    /\ IF tasks[c].name \in DOMAIN MODEL_CACHE
         THEN Finish(c, [tasks[c] EXCEPT !.obj = MODEL_CACHE[tasks[c].name]],
                     Ok(MODEL_CACHE[tasks[c].name]))
         ELSE Finish(c, tasks[c], Raise("KeyError"))
    /\ UNCHANGED <<wrapper, call, fc, cls, disk, CACHE, MODEL_CACHE, heap>>

(* cached_model line 70 and load_model_by_name lines 54-56                 *)
LoadEnter(c) ==
    /\ tasks[c].pc = "l70"
    /\ LET key == CacheKey(ModelsDir, tasks[c].name)
           t == [tasks[c] EXCEPT !.entered = TRUE,
                                 !.hit = key \in DOMAIN CACHE,
                                 !.absent = ~FileExists(disk, tasks[c].name)]
       IN  IF CacheHit(CACHE, key)
             THEN Step(c, [t EXCEPT !.pc = "l71m", !.obj = CACHE[key]])
             ELSE Step(c, [t EXCEPT !.pc = "l58"])
    /\ UNCHANGED <<wrapper, call, fc, cls, disk, CACHE, MODEL_CACHE, heap>>

(* load_model_by_name lines 58-60                                          *)
CheckDir(c) ==
    /\ tasks[c].pc = "l58"
    /\ IF DirExists(disk)
         THEN Step(c, [tasks[c] EXCEPT !.pc = "l62"])
         ELSE Finish(c, tasks[c], Raise("FileNotFoundError"))
    /\ UNCHANGED <<wrapper, call, fc, cls, disk, CACHE, MODEL_CACHE, heap>>

(* load_model_by_name lines 62-64                                          *)
CheckFile(c) ==
    /\ tasks[c].pc = "l62"
    /\ IF FileExists(disk, tasks[c].name)
         THEN Step(c, [tasks[c] EXCEPT !.pc = "l67"])
         ELSE Finish(c, tasks[c], Raise("FileNotFoundError"))
    /\ UNCHANGED <<wrapper, call, fc, cls, disk, CACHE, MODEL_CACHE, heap>>

(* load_model_by_name lines 67-69: cand.open raises FileNotFoundError when *)
(* the file has gone since the test.                                       *)
Unpickle(c) ==
    /\ tasks[c].pc = "l67"
    /\ IF FileExists(disk, tasks[c].name)
         THEN Step(c, [tasks[c] EXCEPT !.pc = "l71", !.reads = @ + 1,
                                       !.loaded = Stored(tasks[c].name)])
         ELSE Finish(c, tasks[c], Raise("FileNotFoundError"))
    /\ UNCHANGED <<wrapper, call, fc, cls, disk, CACHE, MODEL_CACHE, heap>>

(* load_model_by_name lines 71-117: the wrapper is constructed, stored in  *)
(* _CACHE and returned; an exception of the constructor propagates.        *)
Wrap(c) ==
    /\ tasks[c].pc = "l71"
    /\ LET t == tasks[c]
           key == CacheKey(ModelsDir, t.name)
           family == LoadFamily(CandName(t.name), t.loaded)
           wrapped == WrapperInit(family, t.loaded)
           made == Get(heap, key, <<>>)
           obj == <<key, Len(made) + 1>>
       IN  IF wrapped.status = "built"
             THEN /\ heap' = (key :> Append(made, [stale |-> FALSE, family |-> family,
                                                     name |-> t.name])) @@ heap
                  /\ CACHE' = Store(CACHE, key, obj)
                  /\ Step(c, [t EXCEPT !.pc = "l71m", !.built = @ + 1, !.obj = obj])
             ELSE /\ Finish(c, t, Raise(wrapped.status))
                  /\ UNCHANGED <<heap, CACHE>>
    /\ UNCHANGED <<wrapper, call, fc, cls, disk, MODEL_CACHE>>

(* cached_model lines 71-72                                                *)
StoreModelCache(c) ==
    /\ tasks[c].pc = "l71m"
    /\ MODEL_CACHE' = Store(MODEL_CACHE, tasks[c].name, tasks[c].obj)
    /\ Finish(c, tasks[c], Ok(tasks[c].obj))
    /\ UNCHANGED <<wrapper, call, fc, cls, disk, CACHE, heap>>

(* The response is sent.                                                   *)
Respond(c) ==
    /\ tasks[c].pc = "done"
    /\ tasks' = [tasks EXCEPT ![c] = Idle]
    /\ UNCHANGED <<wrapper, call, fc, cls, disk, CACHE, MODEL_CACHE, heap, running>>

(* clear_cache, a plain function: it runs in a worker thread, at any time. *)
ClearCache ==
    /\ MODEL_CACHE' = <<>>
    /\ heap' = [ key \in DOMAIN heap |->
                  [ i \in 1..Len(heap[key]) |-> [heap[key][i] EXCEPT !.stale = TRUE] ] ]
    /\ tasks' = [ c \in Callers |->
                   IF tasks[c].pc = "idle" THEN tasks[c]
                   ELSE [tasks[c] EXCEPT !.cleared = TRUE] ]
    /\ UNCHANGED <<wrapper, call, fc, cls, disk, CACHE, running>>

(* The models directory and its files change under the process.            *)
Touch ==
    /\ tasks' = [ c \in Callers |->
                   IF tasks[c].pc \in InLoad THEN [tasks[c] EXCEPT !.changed = TRUE]
                   ELSE tasks[c] ]
    /\ UNCHANGED <<wrapper, call, fc, cls, CACHE, MODEL_CACHE, heap, running>>

WriteFile ==
    /\ disk.dir
    /\ \E name \in Names \ disk.files :
         disk' = [disk EXCEPT !.files = @ \cup {name}]
    /\ Touch

RemoveFile ==
    /\ \E name \in disk.files :
         disk' = [disk EXCEPT !.files = @ \ {name}]
    /\ Touch

RemoveDir ==
    /\ disk.dir
    /\ disk' = [dir |-> FALSE, files |-> {}]
    /\ Touch

MakeDir ==
    /\ ~disk.dir
    /\ disk' = [dir |-> TRUE, files |-> {}]
    /\ Touch

NextLoader ==
    \/ \E c \in Callers : Request(c)
    \/ \E c \in Callers : Begin(c)
    \/ \E c \in Callers : CheckModelCache(c)
    \/ \E c \in Callers : ReadModelCache(c)
    \/ \E c \in Callers : LoadEnter(c)
    \/ \E c \in Callers : CheckDir(c)
    \/ \E c \in Callers : CheckFile(c)
    \/ \E c \in Callers : Unpickle(c)
    \/ \E c \in Callers : Wrap(c)
    \/ \E c \in Callers : StoreModelCache(c)
    \/ \E c \in Callers : Respond(c)
    \/ ClearCache
    \/ WriteFile
    \/ RemoveFile
    \/ RemoveDir
    \/ MakeDir

---------------------------------------------------------------------------
(* The scoring state machine: a wrapper is constructed from an artifact;   *)
(* predict and predict_proba are called on it with a batch; the result is  *)
(* handed to the caller.                                                   *)

NoCall == [op |-> "none"]

NoForecast == [op |-> "none"]

NoClass == [op |-> "none"]

Init ==
    /\ wrapper = NoWrapper
    /\ call = NoCall
    /\ fc = NoForecast
    /\ cls = NoClass
    /\ disk = [dir |-> TRUE, files |-> {}]
    /\ CACHE = <<>>
    /\ MODEL_CACHE = <<>>
    /\ heap = <<>>
    /\ tasks = [c \in Callers |-> Idle]
    /\ running = "none"

Construct ==
    /\ wrapper.status = "none"
    /\ \E input \in WrapperInputs : wrapper' = WrapperInit(input[1], input[2])
    /\ UNCHANGED <<call, fc, cls, loading>>

Predict ==
    /\ wrapper.status = "built"
    /\ call.op = "none"
    /\ \E X \in BatchesFor(wrapper.family) : call' = WrapperPredict(wrapper, X)
    /\ UNCHANGED <<wrapper, fc, cls, loading>>

PredictProba ==
    /\ wrapper.status = "built"
    /\ call.op = "none"
    /\ \E X \in BatchesFor(wrapper.family) : call' = WrapperPredictProba(wrapper, X)
    /\ UNCHANGED <<wrapper, fc, cls, loading>>

Return ==
    /\ call.op # "none"
    /\ call' = NoCall
    /\ UNCHANGED <<wrapper, fc, cls, loading>>

(* Classification called on its own.                                      *)
MaxWords == 3

Words ==
    { S_rolling, S_ewma, S_cusum, S_zscore, S_exp, S_esd, S_holt, S_winters,
      S_high_sensitivity, <<"m", "o", "d", "e", "l">>,
      <<"E", "W", "M", "A">>, <<"R", "o", "l", "l", "i", "n", "g">> }

RECURSIVE Joined(_)
Joined(n) ==
    IF n = 1 THEN Words
    ELSE { a \o <<"_">> \o b : a \in Joined(n - 1), b \in Words }

(* cand.name = f"{name}.pkl"                                               *)
FileNames ==
    { stem \o <<".", "p", "k", "l">> : stem \in UNION { Joined(n) : n \in 1..MaxWords } }

ModelTypes ==
    { <<>>, S_arima, S_cusum, S_holt_winters, <<"E", "W", "M", "A">>,
      <<"l", "s", "t", "m">> }

TypedArtifacts == {Dict} \cup { With(Dict, "model_type", t) : t \in ModelTypes }

Classify ==
    /\ cls.op = "none"
    /\ \E file_name \in FileNames, obj \in TypedArtifacts :
         cls' = [ op |-> "classify", file_name |-> file_name, obj |-> obj,
                  mtype |-> InferModelType(file_name, obj),
                  family |-> DispatchFamily(InferModelType(file_name, obj)) ]
    /\ UNCHANGED <<wrapper, call, fc, loading>>

ClassifyReturn ==
    /\ cls.op # "none"
    /\ cls' = NoClass
    /\ UNCHANGED <<wrapper, call, fc, loading>>

NextClassify ==
    \/ Classify
    \/ ClassifyReturn

SpecClassify == Init /\ [][NextClassify]_vars

(* The Forecast Provider called on its own.                               *)
Providers == ForecastFamilies \cup {"granger", "fast_inference"}

Forecasters ==
    { [caps |-> c, raises |-> r, value |-> 3] :
        c \in {{}, {"forecast"}, {"predict"}}, r \in BOOLEAN }

OptForecaster(d, fm) == IF fm.value = 0 THEN d ELSE With(d, "fitted_model", fm)

ForecastEntries ==
    { OptForecaster(Opt(Entry("P1", NoQ, w, NoQ, lv), "fitted_path", fp, ""), fm) :
        w \in {0 - 1, 0, 1, 2, 3}, lv \in {<<>>, <<5, 2>>},
        fp \in {"", "fitted.pkl", "corrupt.pkl", "missing.pkl"},
        fm \in Forecasters \cup {[caps |-> {}, raises |-> FALSE, value |-> 0]} }

ForecastCall ==
    /\ fc.op = "none"
    /\ \E provider \in Providers, info \in ForecastEntries, series \in AllSeries :
         fc' = [ op |-> "forecast", provider |-> provider, info |-> info,
                 series |-> series, result |-> Forecast(provider, info, series) ]
    /\ UNCHANGED <<wrapper, call, cls, loading>>

ForecastReturn ==
    /\ fc.op # "none"
    /\ fc' = NoForecast
    /\ UNCHANGED <<wrapper, call, cls, loading>>

NextForecast ==
    \/ ForecastCall
    \/ ForecastReturn

SpecForecast == Init /\ [][NextForecast]_vars

SpecLoader == Init /\ [][NextLoader]_vars

(* fast_inference.py: the parallel scoring path.  df is the loaded data    *)
(* (a csv file: every column is loaded); a score part is [ok, val, err]    *)
(* with val the violation vector of one entry.                             *)

(* arr_map = {t: df_full[t].to_numpy(dtype=float) for t in targets if t in *)
(* df_full.columns}                                                        *)
ArrMap(items, df) ==
    [ t \in { items[k]["target_sensor"] : k \in 1..Len(items) } \cap DOMAIN df.cols |->
        df.cols[t].vals ]

(* _score_one; next(iter(arr_map.values())) raises StopIteration on an     *)
(* empty arr_map.                                                          *)
ScoreOne(model_info, arr_map, z_thresh) ==
    LET target == Get(model_info, "target_sensor", "")
    IN  IF target = "" \/ target \notin DOMAIN arr_map
          THEN IF DOMAIN arr_map = {} THEN Raise("StopIteration")
               ELSE Ok(Zeros(Len(arr_map[CHOOSE t \in DOMAIN arr_map : TRUE])))
        ELSE
          Let(arr_map[target], LAMBDA actual :
          Let(FastForecastVector(model_info, actual), LAMBDA f :
            IF ~f.ok THEN Raise(f.err)
            ELSE IF Len(actual) = 0 THEN Ok(<<>>)
            ELSE
              Let(ResidualInts(Residual(actual,
                    IF Len(f.val) # Len(actual) THEN Resize(f.val, Len(actual)) ELSE f.val)),
                  LAMBDA r :
              Let(VarN2(r), LAMBDA v :
                IF StdBelowEps(v) THEN Ok(Zeros(Len(actual)))
                ELSE Ok(Tup([ i \in 1..Len(actual) |->
                          IF ZExceeds(r[i], Len(actual), v, z_thresh) THEN 1 ELSE 0 ])))))) 

(* fast_infer_cached up to the score vector: [ok, val, err, parts].        *)
(* info.get of an entry that is no mapping raises AttributeError; a part   *)
(* that raises ends the call with its exception.                           *)
FastInferCached(mdata, df) ==
    IF ~IsDict(mdata) THEN [ok |-> FALSE, val |-> <<>>, err |-> "TypeError", parts |-> <<>>]
    ELSE
      Let(ArimaModels(mdata), LAMBDA items :
        IF \E k \in 1..Len(items) : ~IsDict(items[k])
          THEN [ok |-> FALSE, val |-> <<>>, err |-> "AttributeError", parts |-> <<>>]
        ELSE
          Let(ArrMap(Tup([ k \in 1..Len(items) |->
                             With(items[k], "target_sensor",
                                  Get(items[k], "target_sensor", "")) ]), df), LAMBDA arr_map :
          Let(Tup([ k \in 1..Len(items) |->
                     ScoreOne(items[k], arr_map, Get(items[k], "z_threshold", QInt(3))) ]),
              LAMBDA parts :
            IF \E k \in 1..Len(items) : ~parts[k].ok
              THEN [ok |-> FALSE, val |-> <<>>,
                    err |-> parts[CHOOSE k \in 1..Len(items) :
                                    /\ ~parts[k].ok
                                    /\ \A j \in 1..(k - 1) : parts[j].ok].err,
                    parts |-> parts]
            ELSE [ok |-> TRUE,
                  val |-> Tup([ i \in 1..df.n |->
                               IntSum(Tup([ k \in 1..Len(items) |->
                                   IF i <= Len(parts[k].val) THEN parts[k].val[i] ELSE 0 ])) ]),
                  err |-> "",
                  parts |-> parts])))

FastInfer ==
    /\ call.op = "none"
    /\ \E mdata \in Artifacts, df \in Batches \ {FIT101Batch} :
         call' = [op |-> "fast_infer", mdata |-> mdata, X |-> df] @@ FastInferCached(mdata, df)
    /\ UNCHANGED <<wrapper, fc, cls, loading>>

FastReturn ==
    /\ call.op = "fast_infer"
    /\ call' = NoCall
    /\ UNCHANGED <<wrapper, fc, cls, loading>>

NextFast ==
    \/ FastInfer
    \/ FastReturn

SpecFast == Init /\ [][NextFast]_vars

(* The violation test of _aggregate_score on its own.  z = |residual /     *)
(* std| can be any value up to sqrt(n - 1) on a batch of n rows; here z =  *)
(* ri / 2 (n = 1, v = 4) and the entry's z_threshold is t / 2.             *)
MaxHalves == 80

ViolationCall ==
    /\ fc.op = "none"
    /\ \E ri \in 0..MaxHalves, t \in 0..MaxHalves :
         LET zth == Q(t, 2)
         IN  fc' = [ op |-> "violation", ri |-> ri, n |-> 1, v |-> 4, zth |-> zth,
                     plain |-> Violation("arima", ri, 1, 4, zth),
                     damped |-> Violation("exp_esd_zscore", ri, 1, 4, zth) ]
    /\ UNCHANGED <<wrapper, call, cls, loading>>

NextViolation == ViolationCall

SpecViolation == Init /\ [][NextViolation]_vars

Next ==
    \/ Construct
    \/ Predict
    \/ PredictProba
    \/ Return

Spec == Init /\ [][Next]_vars

---------------------------------------------------------------------------
(* Properties of the scoring engine.                                       *)

(* The anomaly threshold the artifact gives: training_params' value, else  *)
(* config's, else NoQ (none given).                                        *)
GivenThreshold(model_dict) ==
    Get(Get(model_dict, "training_params", Dict), "anomaly_threshold",
        Get(Get(model_dict, "config", Dict), "anomaly_threshold", NoQ))

PredictReturned ==
    /\ wrapper.status = "built"
    /\ call.op = "predict"
    /\ call.ok

(* C1: in the forecast-entry families, with an artifact threshold t > 0,   *)
(* predict marks row i as anomaly exactly when the raw aggregate score of  *)
(* row i is >= t; a raw score equal to t is an anomaly.                    *)
C1_PredictIffRawAtLeastThreshold ==
    ( /\ PredictReturned
      /\ wrapper.family \in ForecastFamilies
      /\ GivenThreshold(wrapper.model_dict) # NoQ
      /\ GivenThreshold(wrapper.model_dict)[1] > 0 )
    => /\ Len(call.out) = Len(call.raw)
       /\ \A i \in 1..Len(call.raw) :
            (call.out[i] = 1) <=> QLe(GivenThreshold(wrapper.model_dict), call.raw[i])

C1_Witness ==
    /\ PredictReturned
    /\ wrapper.family \in ForecastFamilies
    /\ GivenThreshold(wrapper.model_dict) # NoQ
    /\ GivenThreshold(wrapper.model_dict)[1] > 0
    /\ \E i \in 1..Len(call.raw) :
         call.raw[i] = GivenThreshold(wrapper.model_dict) /\ call.out[i] = 1
    /\ \E i \in 1..Len(call.raw) : call.out[i] = 0

Called ==
    /\ wrapper.status = "built"
    /\ call.op # "none"

(* C2: the threshold a forecast-entry wrapper applies, in predict and as   *)
(* probability centre, is training_params' anomaly threshold when given,   *)
(* else config's when given, else 1.0, whatever number the fields carry.   *)
C2_ThresholdPrecedence ==
    ( /\ Called
      /\ call.ok
      /\ wrapper.family \in ForecastFamilies )
    => call.thr = IF GivenThreshold(wrapper.model_dict) # NoQ
                    THEN GivenThreshold(wrapper.model_dict)
                    ELSE <<1, 1>>

(* C3: in every family a zero-row batch yields, without error, an empty    *)
(* vector from predict and the single row [1.0, 0.0] from predict_proba.   *)
C3_EmptyBatch ==
    ( /\ Called
      /\ call.X.n = 0 )
    => /\ call.ok
       /\ call.op = "predict" => Len(call.out) = 0
       /\ call.op = "predict_proba" => call.out = << <<ProbUnit, 0>> >>

FIT101Artifact == With(Dict, "forecast_models", <<FIT101Entry>>)

(* C5: ARIMA-family policy on the FIT101 artifact and the batch of twenty  *)
(* 1s followed by 50: scoring completes, the violation flag of the last    *)
(* row is 1 and of every earlier row 0, and the anomaly probability of the *)
(* last row exceeds that of every earlier row.                             *)
C5_FIT101EndToEnd ==
    ( /\ Called
      /\ wrapper.family = "arima"
      /\ wrapper.model_dict = FIT101Artifact
      /\ call.X = FIT101Batch )
    => /\ call.ok
       /\ Len(call.raw) = 21
       /\ call.raw[21] = <<1, 1>>
       /\ \A i \in 1..20 : call.raw[i] = <<0, 1>>
       /\ call.op = "predict_proba" =>
            \A i \in 1..20 : call.out[21][2] > call.out[i][2]

(* The entries _compute_inverse_frequency counts: mappings with a          *)
(* non-empty target_sensor.                                                *)
Counted(models) ==
    { k \in 1..Len(models) :
        /\ models[k].kind = "dict"
        /\ "target_sensor" \in DOMAIN models[k]
        /\ models[k]["target_sensor"] # "" }

NamedBy(models, t) == { k \in Counted(models) : models[k]["target_sensor"] = t }

(* C6: at construction every sensor named by a counted entry has weight    *)
(* 1 / (number of counted entries naming it), no other sensor has a        *)
(* weight, and the weights summed over the counted entries equal the       *)
(* number of distinct sensors.                                             *)
C6_InverseFrequencyWeights ==
    ( /\ wrapper.status = "built"
      /\ wrapper.family \in ForecastFamilies )
    => LET models == wrapper.models
           sensors == { models[k]["target_sensor"] : k \in Counted(models) }
       IN  /\ DOMAIN wrapper.sensor_weights = sensors
           /\ \A t \in sensors :
                /\ wrapper.sensor_weights[t][1] = 1
                /\ wrapper.sensor_weights[t][2] = Cardinality(NamedBy(models, t))
           /\ QSum(Tup([ k \in 1..Len(models) |->
                            IF k \in Counted(models)
                              THEN wrapper.sensor_weights[models[k]["target_sensor"]]
                              ELSE <<0, 1>> ]))
                = <<Cardinality(sensors), 1>>

C6_Witness ==
    /\ wrapper.status = "built"
    /\ wrapper.family \in ForecastFamilies
    /\ Len(wrapper.models) = 4
    /\ DOMAIN wrapper.sensor_weights = {"P1", "P2"}
    /\ wrapper.sensor_weights["P1"] = <<1, 3>>
    /\ wrapper.sensor_weights["P2"] = <<1, 1>>

(* An entry the aggregation loop scores against the batch, and whose       *)
(* residuals (observed minus forecast) are all equal.                      *)
FlatResidual(family, info, numeric) ==
    /\ IsDict(info)
    /\ Get(info, "target_sensor", "") \in DOMAIN numeric.cols
    /\ LET series == numeric.cols[info["target_sensor"]]
           f == Forecast(family, info, series)
       IN  /\ f.ok
           /\ Len(f.val) = Len(series)
           /\ \A i, j \in 1..Len(series) :
                QSub(QInt(series[i]), f.val[i]) = QSub(QInt(series[j]), f.val[j])

(* C7: an entry whose residual series has zero variance adds exactly 0 to  *)
(* the raw score of every row, whatever its z_threshold (0 and negative    *)
(* included), importance and weight.                                       *)
C7_ZeroVarianceContributesZero ==
    ( /\ Called
      /\ call.ok
      /\ wrapper.family \in ForecastFamilies
      /\ call.X.n > 0 )
    => \A k \in 1..Len(wrapper.models) :
         FlatResidual(wrapper.family, wrapper.models[k], EnsureNumeric(call.X))
           => \A i \in 1..call.X.n : call.parts[k].add[i] = <<0, 1>>

C7_Witness ==
    /\ Called
    /\ call.ok
    /\ wrapper.family \in ForecastFamilies
    /\ call.X.n > 1
    /\ \E k \in 1..Len(wrapper.models) :
         /\ FlatResidual(wrapper.family, wrapper.models[k], EnsureNumeric(call.X))
         /\ Get(wrapper.models[k], "z_threshold", <<3, 1>>)[1] < 0
         /\ Get(wrapper.models[k], "importance", <<1, 1>>) = <<2, 1>>
         /\ call.parts[k].status = "flat"

(* The ARIMA-family wrapper of the same artifact, and its raw scores.      *)
ArimaRaw(model_dict, X) ==
    LET a == ForecastWrapperInit("arima", model_dict)
    IN  AggregateScore("arima", a.sensor_weights, a.models, X)

(* C8: at every row the high-sensitivity raw score is >= the raw score of  *)
(* the ARIMA-family policy wrapped around the same artifact, on the same   *)
(* batch.                                                                  *)
C8_HighSensitivityAtLeastArima ==
    ( /\ Called
      /\ call.ok
      /\ wrapper.family = "high_sensitivity" )
    => /\ ArimaRaw(wrapper.model_dict, call.X).ok
       /\ \A i \in 1..Len(call.raw) :
            QLe(ArimaRaw(wrapper.model_dict, call.X).val[i], call.raw[i])

(* An entry with no usable fitted forecaster (embedded or external).       *)
NoUsableForecaster(info) ==
    /\ "fitted_model" \in DOMAIN info =>
         (info["fitted_model"].raises \/ info["fitted_model"].caps = {})
    /\ Get(info, "fitted_path", "") \in {"", "missing.pkl", "corrupt.pkl"}

(* The entry reaches the moving-average fallback of a provider that has    *)
(* one.                                                                    *)
ReachesMovingAverage(provider, info) ==
    /\ provider # "high_sensitivity"
    /\ provider \in ForecastFamilies => "fitted_model" \notin DOMAIN info
    /\ NoUsableForecaster(info)
    /\ Get(info, "last_values", <<>>) = <<>>
    /\ Get(info, "window_size", IF provider = "fast_inference" THEN 50 ELSE 0) > 1

(* C4: on the moving-average fallback (window_size w > 1) the Forecast     *)
(* Provider returns normally a forecast of exactly n values for every      *)
(* series of length n >= 1, n > w included.                                *)
C4_MovingAverageReturnsNValues ==
    ( /\ fc.op = "forecast"
      /\ ReachesMovingAverage(fc.provider, fc.info)
      /\ Len(fc.series) >= 1 )
    => /\ fc.result.ok
       /\ Len(fc.result.val) = Len(fc.series)

(* The eight family tags.                                                  *)
Tags ==
    { S_rolling_quantile, S_ewma, S_cusum, S_zscore, S_exp_esd_zscore,
      S_holt_winters, S_high_sensitivity, S_arima }

NoRuleMatches(fname) ==
    /\ ~In(S_rolling, fname) /\ ~In(S_ewma, fname) /\ ~In(S_cusum, fname)
    /\ ~In(S_zscore, fname) /\ ~In(S_holt, fname) /\ ~In(S_winters, fname)
    /\ ~In(S_high_sensitivity, fname)

(* C9: for every file name and every model_type (absent or any string)     *)
(* classification returns one of the eight tags, and arima when no rule    *)
(* matches.                                                                *)
C9_ClassificationTotal ==
    cls.op = "classify" =>
      /\ cls.mtype \in Tags
      /\ ( /\ "model_type" \notin DOMAIN cls.obj
           /\ NoRuleMatches(Lower(cls.file_name)) ) => cls.mtype = S_arima

(* The file-name rules in their order: a keyword test and the rule's tag.  *)
RuleHolds(k, fname) ==
    CASE k = 1 -> In(S_rolling, fname)
      [] k = 2 -> In(S_ewma, fname)
      [] k = 3 -> In(S_cusum, fname)
      [] k = 4 -> In(S_zscore, fname) /\ ~(In(S_exp, fname) /\ In(S_esd, fname))
      [] k = 5 -> In(S_exp, fname) /\ In(S_esd, fname) /\ In(S_zscore, fname)
      [] k = 6 -> In(S_holt, fname) \/ In(S_winters, fname)
      [] k = 7 -> In(S_high_sensitivity, fname)
      [] k = 8 -> TRUE

RuleTags ==
    << S_rolling_quantile, S_ewma, S_cusum, S_zscore, S_exp_esd_zscore,
       S_holt_winters, S_high_sensitivity, S_arima >>

ExplicitType(obj) == "model_type" \in DOMAIN obj /\ obj["model_type"] # <<>>

(* C10: a non-empty explicit model_type decides the tag whatever the file  *)
(* name is; otherwise the tag is that of the earliest rule, in the order   *)
(* rolling, ewma, cusum, zscore, exp+esd+zscore, holt/winters,             *)
(* high_sensitivity, arima, that the lower-cased file name matches.        *)
C10_ClassificationOrdered ==
    cls.op = "classify" =>
      /\ ExplicitType(cls.obj) => cls.mtype = Lower(cls.obj["model_type"])
      /\ ~ExplicitType(cls.obj) =>
           \E k \in 1..Len(RuleTags) :
             /\ RuleHolds(k, Lower(cls.file_name))
             /\ \A j \in 1..(k - 1) : ~RuleHolds(j, Lower(cls.file_name))
             /\ cls.mtype = RuleTags[k]

(* An upper-case file name matching the rules of rolling and ewma, with no *)
(* model_type: the earlier rule decides.                                   *)
C10_Witness ==
    /\ cls.op = "classify"
    /\ ~ExplicitType(cls.obj)
    /\ cls.file_name # Lower(cls.file_name)
    /\ RuleHolds(1, Lower(cls.file_name))
    /\ RuleHolds(2, Lower(cls.file_name))
    /\ cls.mtype = S_rolling_quantile

(* The forecast map the artifact gives: forecast_models when given (not    *)
(* empty), else arima_models.                                              *)
GivenForecastMap(model_dict) ==
    IF Truthy(Get(model_dict, "forecast_models", <<>>))
      THEN model_dict["forecast_models"]
      ELSE Get(model_dict, "arima_models", <<>>)

(* C15: every forecast-entry policy scores with the entries of             *)
(* forecast_models when that is given and otherwise with those of          *)
(* arima_models.                                                           *)
C15_ForecastMapEitherKey ==
    ( /\ wrapper.status = "built"
      /\ wrapper.family \in ForecastFamilies )
    => wrapper.models = GivenForecastMap(wrapper.model_dict)

(* C16 as stated: for every family's predict_proba on a non-empty batch,   *)
(* each row's anomaly probability is strictly inside (0,1), the two        *)
(* columns sum to 1, and within the call (fixed centre and scale) the      *)
(* probability is non-decreasing in the raw score.                         *)
C16_ProbabilityStrictlyInside ==
    ( /\ Called
      /\ call.op = "predict_proba"
      /\ call.ok
      /\ call.X.n > 0 )
    => /\ \A i \in 1..Len(call.out) :
            /\ call.out[i][2] > 0
            /\ call.out[i][2] < ProbUnit
            /\ call.out[i][1] + call.out[i][2] = ProbUnit
       /\ wrapper.family \in ForecastFamilies =>
            \A i, j \in 1..Len(call.out) :
              QLe(call.raw[i], call.raw[j]) => call.out[i][2] <= call.out[j][2]

(* C16, amended: on a non-empty batch the two columns of every row sum to  *)
(* 1; in the four forecast-entry families (sigmoid, clipped) the anomaly   *)
(* probability is strictly inside (0,1) and non-decreasing in the raw      *)
(* score; in the four global-statistics families it is within [0,1], the   *)
(* ends included.                                                          *)
C16_ProbabilityByFamily ==
    ( /\ Called
      /\ call.op = "predict_proba"
      /\ call.ok
      /\ call.X.n > 0 )
    => /\ Len(call.out) = call.X.n
       /\ \A i \in 1..Len(call.out) :
            /\ call.out[i][1] + call.out[i][2] = ProbUnit
            /\ call.out[i][2] >= 0
            /\ call.out[i][2] <= ProbUnit
       /\ wrapper.family \in ForecastFamilies =>
            /\ \A i \in 1..Len(call.out) :
                 call.out[i][2] > 0 /\ call.out[i][2] < ProbUnit
            /\ \A i, j \in 1..Len(call.out) :
                 QLe(call.raw[i], call.raw[j]) => call.out[i][2] <= call.out[j][2]

(* A forecast-entry call with two rows of different raw scores, the lower  *)
(* below and the higher above the centre.                                  *)
C16_Witness ==
    /\ Called
    /\ call.op = "predict_proba"
    /\ call.ok
    /\ wrapper.family \in ForecastFamilies
    /\ call.X.n > 0
    /\ \E i, j \in 1..Len(call.out) :
         /\ QLt(call.raw[i], call.thr)
         /\ QLt(call.thr, call.raw[j])
         /\ call.out[i][2] < call.out[j][2]

(* A global-statistics call with an anomaly probability of exactly 1.      *)
C16_WitnessEnds ==
    /\ Called
    /\ call.op = "predict_proba"
    /\ call.ok
    /\ wrapper.family \notin ForecastFamilies
    /\ call.X.n > 0
    /\ \E i \in 1..Len(call.out) : call.out[i] = <<0, ProbUnit>>

(* An entry the aggregation loop is to skip on batch X: not a mapping, no  *)
(* (or an empty) target_sensor, or a target that is no numeric column of   *)
(* X.                                                                      *)
Skippable(info, X) ==
    \/ ~IsDict(info)
    \/ "target_sensor" \notin DOMAIN info
    \/ info["target_sensor"] = ""
    \/ info["target_sensor"] \notin DOMAIN X.cols
    \/ X.cols[info["target_sensor"]].dtype # "num"

Without(models, k) == SubSeq(models, 1, k - 1) \o SubSeq(models, k + 1, Len(models))

(* The raw scores of the same policy over a forecast map.                  *)
RawOver(family, models, X) ==
    AggregateScore(family, ComputeInverseFrequency(models), models, X)

(* C18: an entry that is skipped (not a mapping, missing or empty          *)
(* target_sensor, target absent from or non-numeric in the batch) raises   *)
(* nothing and leaves every row's raw score as it is without the entry;    *)
(* with no usable entry the raw scores are all zero, one per row.          *)
C18_SkippedEntriesInert ==
    ( /\ Called
      /\ wrapper.family \in ForecastFamilies )
    => /\ \A k \in 1..Len(wrapper.models) :
            Skippable(wrapper.models[k], call.X) =>
              /\ call.ok = RawOver(wrapper.family, Without(wrapper.models, k), call.X).ok
              /\ call.raw = RawOver(wrapper.family, Without(wrapper.models, k), call.X).val
       /\ ( \A k \in 1..Len(wrapper.models) : Skippable(wrapper.models[k], call.X) ) =>
            /\ call.ok
            /\ call.raw = Full(call.X.n, <<0, 1>>)

(* A map with a scored entry and skipped entries of each kind, and a row   *)
(* with a raw score that is not zero.                                      *)
C18_Witness ==
    /\ Called
    /\ call.ok
    /\ wrapper.family \in ForecastFamilies
    /\ \E k \in 1..Len(wrapper.models) : ~IsDict(wrapper.models[k])
    /\ \E k \in 1..Len(wrapper.models) :
         IsDict(wrapper.models[k]) /\ "target_sensor" \notin DOMAIN wrapper.models[k]
    /\ \E k \in 1..Len(wrapper.models) :
         /\ IsDict(wrapper.models[k])
         /\ Get(wrapper.models[k], "target_sensor", "") \notin (DOMAIN call.X.cols \cup {""})
    /\ \E i \in 1..Len(call.raw) : call.raw[i] # <<0, 1>>

(* All entries skipped on a batch with rows: a non-numeric target column.  *)
C18_WitnessNoUsable ==
    /\ Called
    /\ wrapper.family \in ForecastFamilies
    /\ Len(wrapper.models) > 0
    /\ call.X.n > 0
    /\ \A k \in 1..Len(wrapper.models) :
         /\ IsDict(wrapper.models[k])
         /\ Get(wrapper.models[k], "target_sensor", "") \in DOMAIN call.X.cols
         /\ Skippable(wrapper.models[k], call.X)
    /\ call.raw = Full(call.X.n, <<0, 1>>)

(* C17: on the moving-average fallback with window_size w > 1 and a series *)
(* of length 1 <= n <= w, the forecast at index 0 is the observed value at *)
(* index 0 and at every index 0 < i < n the mean of the first i observed   *)
(* values.                                                                 *)
C17_ShortSeriesRunningMean ==
    ( /\ fc.op = "forecast"
      /\ ReachesMovingAverage(fc.provider, fc.info)
      /\ Len(fc.series) >= 1
      /\ Len(fc.series) <= Get(fc.info, "window_size", 50) )
    => /\ fc.result.ok
       /\ Len(fc.result.val) = Len(fc.series)
       /\ fc.result.val[1] = <<fc.series[1], 1>>
       /\ \A i \in 2..Len(fc.series) :
            LET first == [ j \in 1..(i - 1) |-> <<fc.series[j], 1>> ]
            IN  fc.result.val[i] = QDivInt(QSum(first), i - 1)

(* A series as long as the window whose first reading differs from the     *)
(* mean of the first two.                                                  *)
C17_Witness ==
    /\ fc.op = "forecast"
    /\ fc.provider = "arima"
    /\ ReachesMovingAverage(fc.provider, fc.info)
    /\ fc.info["window_size"] = 3
    /\ fc.series = <<1, 0, 1>>
    /\ fc.result.ok
    /\ fc.result.val = << <<1, 1>>, <<1, 1>>, <<1, 2>> >>

(* The forecaster an entry's fitted_model or fitted_path gives, in that    *)
(* order, when it has one that answers.                                    *)
WorkingForecaster(fm) == fm.caps # {} /\ ~fm.raises

EmbeddedWorks(info) ==
    "fitted_model" \in DOMAIN info /\ WorkingForecaster(info["fitted_model"])

ExternalWorks(info) == Get(info, "fitted_path", "") = "fitted.pkl"

(* C20: in ArimaWrapper._forecast_series the first applicable provider     *)
(* wins, in the order embedded forecaster, external-path forecaster,       *)
(* last_values, window moving average, observed mean: a working embedded   *)
(* forecaster's output is returned whatever else the entry holds; with no  *)
(* usable forecaster and non-empty last_values the forecast is n times     *)
(* last_values[-1]; the observed mean is returned only when no other       *)
(* provider applies.                                                       *)
C20_ForecastPrecedence ==
    ( /\ fc.op = "forecast"
      /\ fc.provider = "arima"
      /\ Len(fc.series) >= 1 )
    => LET n == Len(fc.series)
           info == fc.info
           last_values == Get(info, "last_values", <<>>)
           mean == QDivInt(<<IntSum(fc.series), 1>>, n)
       IN  /\ EmbeddedWorks(info) =>
                fc.result = Ok([ i \in 1..n |-> <<info["fitted_model"].value, 1>> ])
           /\ ( ~EmbeddedWorks(info) /\ ExternalWorks(info) ) =>
                fc.result = Ok([ i \in 1..n |-> <<Disk("fitted.pkl").obj.value, 1>> ])
           /\ ( ~EmbeddedWorks(info) /\ ~ExternalWorks(info) /\ last_values # <<>> ) =>
                fc.result = Ok([ i \in 1..n |-> <<last_values[Len(last_values)], 1>> ])
           /\ ( /\ ~EmbeddedWorks(info) /\ ~ExternalWorks(info) /\ last_values = <<>>
                /\ Get(info, "window_size", 0) <= 1 ) =>
                fc.result = Ok([ i \in 1..n |-> mean ])
           /\ ( /\ fc.result = Ok([ i \in 1..n |-> mean ])
                /\ \E i \in 1..n : fc.series[i] # fc.series[1]
                /\ mean \notin { <<3, 1>>, <<1, 1>>, <<2, 1>> } ) =>
                /\ ~EmbeddedWorks(info) /\ ~ExternalWorks(info) /\ last_values = <<>>
                /\ Get(info, "window_size", 0) <= 1

(* A working embedded forecaster on an entry that also names a loadable    *)
(* external forecaster, last_values and a window.                          *)
C20_Witness ==
    /\ fc.op = "forecast"
    /\ fc.provider = "arima"
    /\ EmbeddedWorks(fc.info)
    /\ ExternalWorks(fc.info)
    /\ Get(fc.info, "last_values", <<>>) = <<5, 2>>
    /\ Get(fc.info, "window_size", 0) = 2
    /\ fc.series = <<0, 1, 1>>
    /\ fc.result = Ok(<< <<3, 1>>, <<3, 1>>, <<3, 1>> >>)

(* No usable forecaster, last_values and a window: the last recorded value *)
(* on every row.                                                           *)
C20_WitnessLastValues ==
    /\ fc.op = "forecast"
    /\ fc.provider = "arima"
    /\ "fitted_model" \in DOMAIN fc.info
    /\ ~EmbeddedWorks(fc.info)
    /\ Get(fc.info, "fitted_path", "") = "corrupt.pkl"
    /\ Get(fc.info, "window_size", 0) = 2
    /\ fc.series = <<0, 1, 1>>
    /\ fc.result = Ok(<< <<2, 1>>, <<2, 1>>, <<2, 1>> >>)

---------------------------------------------------------------------------
(* Properties of the artifact loader and its caches.                       *)

KeyOf(c) == CacheKey(ModelsDir, tasks[c].name)

Returned(c) == tasks[c].pc = "done" /\ tasks[c].result.ok

(* clear_cache has run since the wrapper behind the object was             *)
(* constructed.                                                            *)
Stale(obj) == heap[obj[1]][obj[2]].stale

(* C11: once a load of (directory, name) has succeeded, the wrapper stays  *)
(* cached under the key, at most one wrapper is ever constructed for the   *)
(* key, and a later call for the name, with no cache clear while it runs,  *)
(* returns that same wrapper object and neither reads the file nor         *)
(* constructs a wrapper.                                                   *)
C11_LoadOnceThenCached ==
    /\ \A key \in DOMAIN heap :
         /\ Len(heap[key]) <= 1
         /\ key \in DOMAIN CACHE
         /\ CACHE[key] = <<key, 1>>
    /\ \A c \in Callers :
         tasks[c].cached =>
           /\ tasks[c].reads = 0
           /\ tasks[c].built = 0
           /\ ( tasks[c].pc = "done" /\ ~tasks[c].cleared ) =>
                tasks[c].result = Ok(<<KeyOf(c), 1>>)

(* A second call for a name, with no cache clear since the wrapper was     *)
(* constructed, after the file has been removed.                           *)
C11_Witness ==
    \E c \in Callers :
      /\ Returned(c)
      /\ tasks[c].cached
      /\ tasks[c].name = MappingName
      /\ ~FileExists(disk, tasks[c].name)
      /\ ~Stale(tasks[c].result.val)
      /\ tasks[c].reads = 0

(* C12: a request made after clear-cache gets a wrapper constructed after  *)
(* that clear (the artifact is read and wrapped again), never the wrapper  *)
(* built before it.                                                        *)
C12_ClearInvalidates ==
    \A c \in Callers :
      ( Returned(c) /\ ~tasks[c].cleared ) => ~Stale(tasks[c].result.val)

(* C13: with two or more requests for the same model name in flight before *)
(* any wrapper for it exists, at most one wrapper is constructed for the   *)
(* name and every caller that gets a wrapper gets that one.                *)
C13_OneConstructionPerName ==
    /\ \A name \in Names :
         Len(Get(heap, CacheKey(ModelsDir, name), <<>>)) <= 1
    /\ \A c, o \in Callers :
         ( Returned(c) /\ Returned(o) /\ tasks[c].name = tasks[o].name ) =>
           tasks[c].result.val = tasks[o].result.val
    /\ \A c \in Callers :
         ( tasks[c].pc = "done" /\ tasks[c].overlap /\ tasks[c].cached
           /\ ~tasks[c].cleared ) => tasks[c].result.ok

(* Two requests for the same name in flight at once, neither cached: one   *)
(* call constructs the wrapper, the other receives it.                     *)
C13_Witness ==
    /\ ~tasks["c1"].cleared
    /\ ~tasks["c2"].cleared
    /\ Returned("c1")
    /\ Returned("c2")
    /\ tasks["c2"].overlap
    /\ tasks["c1"].name = tasks["c2"].name
    /\ tasks["c1"].built = 1
    /\ tasks["c2"].built = 0
    /\ tasks["c1"].result.val = tasks["c2"].result.val

(* load_model_by_name has returned or raised in the call of c.             *)
LoadEnded(c) == tasks[c].pc = "done" /\ tasks[c].entered

(* C14 as stated: a load that finds the directory or the file absent when  *)
(* it is called (and unchanged while it runs) raises not-found and adds no *)
(* cache entry.                                                            *)
C14_AbsentRaisesNotFound ==
    \A c \in Callers :
      ( LoadEnded(c) /\ tasks[c].absent /\ ~tasks[c].changed ) =>
        /\ tasks[c].result = Raise("FileNotFoundError")
        /\ tasks[c].built = 0

(* C14, amended: a load of a key that is not cached raises not-found when  *)
(* directory or file is absent and adds no cache entry; no failed load     *)
(* adds a cache entry; a load of a cached key returns the cached wrapper   *)
(* without looking for the file, absent or not.                            *)
C14_AbsentRaisesNotFoundUnlessCached ==
    \A c \in Callers :
      LoadEnded(c) =>
        /\ ( ~tasks[c].hit /\ tasks[c].absent /\ ~tasks[c].changed ) =>
             /\ tasks[c].result = Raise("FileNotFoundError")
             /\ tasks[c].built = 0
        /\ ~tasks[c].result.ok => tasks[c].built = 0
        /\ tasks[c].hit =>
             /\ tasks[c].result = Ok(CACHE[KeyOf(c)])
             /\ tasks[c].reads = 0

(* A load of a cached key whose file has been removed.                     *)
C14_Witness ==
    \E c \in Callers :
      /\ LoadEnded(c)
      /\ tasks[c].hit
      /\ tasks[c].absent
      /\ tasks[c].result.ok

(* A load with the models directory missing, and then, the directory and   *)
(* the file being there, a load that succeeds.                             *)
C14_WitnessNotFound ==
    /\ LoadEnded("c1")
    /\ ~tasks["c1"].hit
    /\ tasks["c1"].absent
    /\ ~disk.dir
    /\ tasks["c1"].result = Raise("FileNotFoundError")
    /\ CACHE = <<>>

(* The shapes the loader is to accept: a mapping or a detector object.     *)
Supported(obj) ==
    \/ IsDict(obj)
    \/ obj.kind = "other" /\ Get(obj, "class", "") \in DetectorClasses

(* C19: loading an artifact that is neither a mapping nor a detector       *)
(* object raises to the caller; no scorer is returned or cached for it.    *)
C19_UnsupportedShapeRaises ==
    /\ \A c \in Callers :
         ( tasks[c].pc = "done" /\ tasks[c].loaded # Unread
           /\ ~Supported(tasks[c].loaded) ) => ~tasks[c].result.ok
    /\ \A key \in DOMAIN CACHE :
         Supported(Stored(heap[key][CACHE[key][2]].name))

---------------------------------------------------------------------------
(* Properties of the forecast chain under failing forecasters.             *)

(* The embedded forecaster is present and does not answer; the external    *)
(* path is given and gives no answer (missing, unloadable, or raising).    *)
EmbeddedFails(info) ==
    "fitted_model" \in DOMAIN info /\ ~WorkingForecaster(info["fitted_model"])

ExternalFails(info) ==
    /\ Get(info, "fitted_path", "") # ""
    /\ LET file == Disk(info["fitted_path"])
       IN  ~( file.exists /\ file.loads /\ WorkingForecaster(file.obj) )

(* The entry with its failing forecasters taken out.                       *)
WithoutFailing(info) ==
    [ k \in { k \in DOMAIN info :
                /\ ~( k = "fitted_model" /\ EmbeddedFails(info) )
                /\ ~( k = "fitted_path" /\ ExternalFails(info) ) } |-> info[k] ]

(* C21: in ArimaWrapper._forecast_series and                               *)
(* GrangerAnomalyDetector._forecast_series, when the embedded forecaster   *)
(* fails or the external one is missing, unloadable or failing, no         *)
(* exception reaches the caller and the forecast is the one computed for   *)
(* the same entry without the failing forecaster.                          *)
C21_ForecasterFailureNotPropagated ==
    ( /\ fc.op = "forecast"
      /\ fc.provider \in {"arima", "granger"}
      /\ EmbeddedFails(fc.info) \/ ExternalFails(fc.info) )
    => /\ fc.result.ok
       /\ fc.result = Forecast(fc.provider, WithoutFailing(fc.info), fc.series)

(* C21, the part that holds: a failing forecaster leaves the result of the *)
(* call, returned or raised, equal to that of the entry without it.        *)
C21_FailingForecasterAsAbsent ==
    ( /\ fc.op = "forecast"
      /\ fc.provider \in {"arima", "granger"}
      /\ EmbeddedFails(fc.info) \/ ExternalFails(fc.info) )
    => fc.result = Forecast(fc.provider, WithoutFailing(fc.info), fc.series)

---------------------------------------------------------------------------
(* Properties of the calibration centre.                                   *)

(* C22: in predict_proba of a forecast-entry wrapper on a non-empty batch  *)
(* the centre of the logistic curve is the artifact's anomaly threshold    *)
(* when one is given and > 0, and otherwise half the sum of the sensor     *)
(* weights.                                                                *)
C22_CentreIsThresholdOrHalfMass ==
    ( /\ Called
      /\ call.op = "predict_proba"
      /\ call.ok
      /\ call.X.n > 0
      /\ wrapper.family \in ForecastFamilies )
    => call.thr = IF /\ GivenThreshold(wrapper.model_dict) # NoQ
                     /\ GivenThreshold(wrapper.model_dict)[1] > 0
                    THEN GivenThreshold(wrapper.model_dict)
                    ELSE QDivInt(SumWeights(wrapper.sensor_weights), 2)

---------------------------------------------------------------------------
(* Properties of the violation test.                                       *)

(* C23: for every z >= 0 and every z_threshold the dampened comparison of  *)
(* ExpESDZScoreWrapper, 1 - exp(-z) > 1 - exp(-z_threshold), gives the     *)
(* violation flag of the plain comparison z > z_threshold.                 *)
C23_DampedSameAsPlain ==
    fc.op = "violation" => ( fc.damped <=> fc.plain )

---------------------------------------------------------------------------
(* Properties of the global z-score families.                              *)

(* The capped z-scores of a batch summed over its numeric columns, by row  *)
(* (the average times the column count).                                   *)
CappedZSums(X) ==
    Let(EnsureNumeric(X), LAMBDA numeric :
      SumByRow(numeric, [ c \in DOMAIN numeric.cols |-> ColumnCappedZ(numeric.cols[c]) ]))

Varying(X) ==
    \E i \in 1..Len(CappedZSums(X)) : CappedZSums(X)[i] > 0

(* C24: predict_proba of the CUSUM and the z-score wrapper on a batch with *)
(* a varying numeric column is the min-max normalisation of the row        *)
(* averages of the capped column z-scores: the rows of the smallest        *)
(* average have anomaly probability 0 and those of the largest have 1.     *)
C24_MinMaxNormalised ==
    ( /\ Called
      /\ call.op = "predict_proba"
      /\ call.ok
      /\ wrapper.family \in {"cusum", "zscore"}
      /\ call.X.n > 0
      /\ Varying(call.X) )
    => Let(CappedZSums(call.X), LAMBDA sums :
         \A i \in 1..Len(sums) :
           /\ ( \A j \in 1..Len(sums) : sums[i] <= sums[j] ) => call.out[i][2] = 0
           /\ ( \A j \in 1..Len(sums) : sums[i] >= sums[j] ) => call.out[i][2] = ProbUnit)

---------------------------------------------------------------------------
(* Properties of the EWMA wrapper.                                         *)

(* The scores of one column on its own, threaded from the chart's stored   *)
(* mean and variance.                                                      *)
ColumnAlone(chart, series) ==
    IF "ewma_variance" \notin DOMAIN chart THEN Zeros(Len(series))
    ELSE EWMAFrom(chart, series, 1, Get(chart, "ewma_mean", 0), chart["ewma_variance"])

(* C25: after any number of predict / predict_proba calls an EWMA wrapper  *)
(* still holds the chart it was constructed with, and the result of a call *)
(* is, row by row, the clipped average over the numeric columns of each    *)
(* column's scores computed on that column alone from the stored mean and  *)
(* variance (so equal calls give equal results and a column's values do    *)
(* not reach another column's scores).                                     *)
C25_EWMAStateNotCarried ==
    ( /\ Called
      /\ wrapper.family = "ewma"
      /\ call.ok
      /\ call.X.n > 0 )
    => /\ wrapper = EWMAInit(wrapper.model_dict)
       /\ Let(EnsureNumeric(call.X), LAMBDA numeric :
            LET n_cols == Cardinality(DOMAIN numeric.cols)
                alone == [ c \in DOMAIN numeric.cols |->
                            ColumnAlone(wrapper.detector, numeric.cols[c]) ]
            IN  \A i \in 1..numeric.n :
                  call.raw[i] =
                    Max(0, Min(ProbUnit,
                        IF n_cols > 0
                          THEN FSum([ c \in DOMAIN numeric.cols |-> alone[c][i] ],
                                    DOMAIN numeric.cols) \div n_cols
                          ELSE 0)))

(* A two-column batch scored by a chart whose stored mean is not 0, with   *)
(* rows of different probability.                                          *)
C25_Witness ==
    /\ Called
    /\ wrapper.family = "ewma"
    /\ call.op = "predict_proba"
    /\ call.ok
    /\ call.X.n = 3
    /\ DOMAIN call.X.cols = {"P1", "P2"}
    /\ wrapper.detector["ewma_mean"] # 0
    /\ \E i, j \in 1..3 : call.raw[i] # call.raw[j]

(* The threading inside a column: two rows of one value, scored            *)
(* differently.                                                            *)
C25_WitnessThreaded ==
    /\ Called
    /\ wrapper.family = "ewma"
    /\ call.ok
    /\ DOMAIN call.X.cols = {"P1"}
    /\ call.X.cols["P1"].dtype = "num"
    /\ \E i, j \in 1..call.X.n :
         /\ call.X.cols["P1"].vals[i] = call.X.cols["P1"].vals[j]
         /\ call.op = "predict_proba"
         /\ call.raw[i] # call.raw[j]

---------------------------------------------------------------------------
(* Properties of the forecast chain across the forecast-entry wrappers.    *)

(* C26: for every entry and observed series the forecast of                *)
(* HoltWintersWrapper, ExpESDZScoreWrapper and HighSensitivityWrapper is   *)
(* the forecast ArimaWrapper._forecast_series computes.                    *)
C26_SameForecastChain ==
    ( /\ fc.op = "forecast"
      /\ fc.provider \in ForecastFamilies )
    => fc.result = ArimaForecastSeries(fc.info, fc.series)

---------------------------------------------------------------------------
(* Properties of the parallel fast-inference path.                         *)

(* The entries of the call, in order.                                      *)
FastItems == ArimaModels(call.mdata)

(* The entry names a target sensor that is no column of the loaded data.   *)
TargetAbsent(info) ==
    /\ Get(info, "target_sensor", "") # ""
    /\ info["target_sensor"] \notin DOMAIN call.X.cols

(* C27: in fast_infer_cached an entry whose target sensor is absent from   *)
(* the loaded data is skipped, with no violation on any row and no         *)
(* exception, also when no entry's target sensor is in the data.           *)
C27_AbsentTargetSkipped ==
    ( /\ call.op = "fast_infer"
      /\ IsDict(call.mdata)
      /\ \A k \in 1..Len(FastItems) : IsDict(FastItems[k]) )
    => \A k \in 1..Len(FastItems) :
         TargetAbsent(FastItems[k]) =>
           /\ call.parts[k].ok
           /\ \A i \in 1..Len(call.parts[k].val) : call.parts[k].val[i] = 0

---------------------------------------------------------------------------
(* The class load_model_by_name wraps an artifact with, for every file     *)
(* name and for mapping and non-mapping artifacts.                         *)

ServedArtifacts == TypedArtifacts \cup Charts \cup {NotADict, ListObject}

(* load_model_by_name from the unpickled obj to the wrapped object: the    *)
(* wrapper class chosen for cand.name and obj.                             *)
LoadArtifact ==
    /\ cls.op = "none"
    /\ \E file_name \in FileNames, obj \in ServedArtifacts :
         cls' = [ op |-> "load", file_name |-> file_name, obj |-> obj,
                  family |-> LoadFamily(file_name, obj) ]
    /\ UNCHANGED <<wrapper, call, fc, loading>>

LoadReturn ==
    /\ cls.op = "load"
    /\ cls' = NoClass
    /\ UNCHANGED <<wrapper, call, fc, loading>>

NextLoadArtifact ==
    \/ LoadArtifact
    \/ LoadReturn

SpecLoadArtifact == Init /\ [][NextLoadArtifact]_vars

(* The tag the classification rules give: model_type when the artifact is  *)
(* a mapping carrying one, the file-name rules otherwise.                  *)
RuleTag(file_name, obj) ==
    IF IsDict(obj) THEN InferModelType(file_name, obj)
    ELSE InferFromName(Lower(file_name))

(* C28: the wrapper class the loader returns is the one of the tag the     *)
(* classification rules give for the file name and model_type, for         *)
(* mapping and non-mapping artifacts alike (tags outside the eight have    *)
(* no class of their own and are left out).                                *)
C28_ClassFollowsTag ==
    ( /\ cls.op = "load"
      /\ RuleTag(cls.file_name, cls.obj) \in Tags )
      => cls.family = DispatchFamily(RuleTag(cls.file_name, cls.obj))

(* C28 restricted to mapping artifacts.                                    *)
C28_MappingClassFollowsTag ==
    ( /\ cls.op = "load"
      /\ IsDict(cls.obj)
      /\ RuleTag(cls.file_name, cls.obj) \in Tags )
      => cls.family = DispatchFamily(RuleTag(cls.file_name, cls.obj))

(* A chart object stored under a name containing 'ewma'.                   *)
C28_ChartUnderEwmaName ==
    /\ cls.op = "load"
    /\ cls.obj \in Charts
    /\ In(S_ewma, Lower(cls.file_name))
    /\ cls.family = "cusum"

---------------------------------------------------------------------------
(* C29: a CUSUMWrapper built from a detector object that is not a mapping  *)
(* has anomaly threshold 5.0; its anomaly probabilities lie in [0, 1], so  *)
(* predict returns 0 for every row of every batch.                         *)
C29_ObjectCusumNeverFlags ==
    ( /\ wrapper.status = "built"
      /\ wrapper.family = "cusum"
      /\ wrapper.from_object )
    => /\ wrapper.anomaly_threshold = QInt(5)
       /\ call.op = "predict" =>
            /\ call.ok
            /\ Len(call.out) = Len(call.raw)
            /\ \A i \in 1..Len(call.raw) :
                 /\ call.raw[i] \in 0..ProbUnit
                 /\ call.out[i] = 0

(* Such a wrapper has scored a batch whose largest row has probability 1.  *)
C29_Witness ==
    /\ PredictReturned
    /\ wrapper.family = "cusum"
    /\ wrapper.from_object
    /\ call.X.n > 1
    /\ \E i \in 1..Len(call.raw) : call.raw[i] = ProbUnit
    /\ \A i \in 1..Len(call.out) : call.out[i] = 0

---------------------------------------------------------------------------
(* The wrapper scores by _manual_predict_proba with a detector object      *)
(* that carries none of window_size, the quantiles and iqr_multiplier.     *)
ManualDefaults(w) ==
    /\ w.status = "built"
    /\ w.family = "rolling_quantile"
    /\ ~IsNone(w.detector)
    /\ ~( /\ "predict_proba" \in Get(w.detector, "caps", {})
          /\ ~w.detector.raises )
    /\ DOMAIN w.detector
         \cap {"window_size", "lower_quantile", "upper_quantile", "iqr_multiplier"} = {}

InsideOwnBounds(detector, params, series, i) ==
    /\ Len(WindowData(series, i, 2)) > 0
    /\ WindowData(series, i, 2)[Len(WindowData(series, i, 2))] = series[i]
    /\ QLe(RowBounds(detector, params, series, i).lower, QInt(series[i]))
    /\ QLe(QInt(series[i]), RowBounds(detector, params, series, i).upper)

(* C30: in the manual rolling-quantile path the window of row i ends with  *)
(* row i; with the default parameters every value lies inside its own      *)
(* bounds, every row's anomaly score is 0 and predict with a positive      *)
(* threshold flags no row.                                                 *)
C30_DefaultWindowNeverFlags ==
    ( /\ ManualDefaults(wrapper)
      /\ call.op = "predict" )
    => /\ \A c \in DOMAIN EnsureNumeric(call.X).cols, i \in 1..call.X.n :
            InsideOwnBounds(wrapper.detector, Dict, EnsureNumeric(call.X).cols[c], i)
       /\ call.X.n > 0 => Len(call.raw) = call.X.n
       /\ \A i \in 1..Len(call.raw) : call.raw[i] = 0
       /\ ( call.ok /\ call.thr[1] > 0 ) =>
            /\ Len(call.out) = Len(call.raw)
            /\ \A i \in 1..Len(call.out) : call.out[i] = 0

(* The manual path has scored a varying column named in sensor_params and  *)
(* predict has returned under a positive threshold.                        *)
C30_Witness ==
    /\ ManualDefaults(wrapper)
    /\ PredictReturned
    /\ call.thr[1] > 0
    /\ "P1" \in DOMAIN Get(wrapper.detector, "sensor_params", Dict)
    /\ "P1" \in DOMAIN EnsureNumeric(call.X).cols
    /\ \E i \in 2..call.X.n :
         EnsureNumeric(call.X).cols["P1"][i] # EnsureNumeric(call.X).cols["P1"][i - 1]
    /\ \A i \in 1..Len(call.out) : call.out[i] = 0

===========================================================================
